---- MODULE Spec2Model ----
(***************************************************************************)
(* Model of the md-editor UI process: the tab manager                      *)
(* (src/renderer/tab-manager.js) and the auto-save controller              *)
(* (createAutoSave, src/renderer/renderer.js).                             *)
(*                                                                         *)
(* JavaScript runs every handler to completion, so one handler (up to its  *)
(* first await) is one action, and the continuation after an await is      *)
(* another action, taken when the host process answers the request.        *)
(*                                                                         *)
(* Tab objects live on a heap (tab) indexed by their identifier: the       *)
(* closures of a tab (auto-save callbacks, pending continuations) keep the *)
(* object alive and keep writing to it after the tab has left the tab      *)
(* sequence (tabs).                                                        *)
(***************************************************************************)
EXTENDS Integers, Sequences, FiniteSets, TLC

\* ---------------------------------------------------------------- bounds
\* Tab manager (Spec): identifiers handed out, busy tabs, unanswered
\* requests, and timers plus unanswered auto-save requests per controller.
MaxTabs == 2
MaxBusy == 1
MaxTabInflight == 1
MaxTabChains == 1
\* Tab strip (StripSpec): busy tabs and unanswered requests.
MaxStripBusy == 2
MaxStripInflight == 2
\* One controller with a clock (AutoSpec): its timers plus unanswered
\* requests.
MaxChains == 2
\* Texts and task-board documents are numbered 0..MaxVal.
MaxVal == 1
\* sinceTrigger saturates here.
SinceCap == 3000

\* ------------------------------------------------------- program constants
AUTOSAVE_DELAY == 2000
RETRY_DELAY == 5000

\* --------------------------------------------------------------- domains
null == "null"
NoTab == 0
TabIds == 1..MaxTabs
Paths == {"p1", "p2"}
Vals == 0..MaxVal
TickSteps == {1000}

\* A file content.  layout "text" is any text that is not a task-board
\* JSON document (the text number val); "compact" and "pretty" are two JSON
\* texts of the task-board document number val: "pretty" is the layout that
\* JSON.stringify(data, null, 2) + '\n' writes, "compact" any other layout.
Text(v) == [val |-> v, layout |-> "text"]
Json(v, l) == [val |-> v, layout |-> l]
Texts == {Text(v) : v \in Vals}
Jsons == {Json(v, l) : v \in Vals, l \in {"compact", "pretty"}}
\* Task-board files on disk: the text createTodoTab defaults to,
\* '{"lists":[]}', and the files the editor wrote itself.
TodoFiles == {Json(0, "compact")} \cup {Json(v, "pretty") : v \in Vals}
Contents == Texts \cup Jsons

\* ------------------------------------------------------------- variables
VARIABLES
  tabs,          \* the tab sequence (identifiers, in strip order)
  activeTabId,   \* identifier of the active tab, NoTab when none
  tabIdCounter,  \* last identifier handed out
  tab,           \* heap of tab objects, by identifier
  timers,        \* per controller: the timers armed in the event loop
  inflight,      \* save requests sent to the host and not yet answered
  quiet,         \* per controller: cancel/closeTab was its last call
  clockOn,       \* TRUE when the specification counts time
  sinceTrigger,  \* ms since the last trigger() call (saturates at SinceCap)
  gap,           \* ms between the last two trigger() calls
  op,            \* the handler that ran last, with what it emitted
  currentFontSize, \* the font size of all editors (tab-manager.js)
  window,        \* the main window of the host: "open", "closing", "closed"
  sessionFile,   \* the content of session.json
  toUI,          \* messages the host sent that the UI process has not handled
  atClose,       \* the tab state at the last close request, what became of
                 \* it, and the number of launches after the first (run)
  recent,        \* the content of recent.json
  reAdds,        \* number of files opened or saved while in the recent list
  idCounter,     \* todo-renderer.js: the counter of uid()
  issued,        \* the identifiers uid() has returned, in order
  todoText,      \* a task-board file text
  todoData,      \* the document parseTodoData made of it
  docLine,       \* the one line of an editor's document, as characters
  rendered,      \* the checkbox widget whose DOM element the editor shows
  mdText,        \* a markdown text, as characters
  mdBlocks,      \* the blocks renderMarkdown made of them
  sent,          \* per tab: the content of the last save request sent for it,
                 \* as a sequence of at most one content; the empty function
                 \* in the specifications that keep no record of it
  tabsContainer, \* the children of #tabs-container: the strip entries of the
                 \* tabs (by tab identifier), in document order
  notificationBar, \* #notification-bar: hidden, className, the message, and
                 \* the ms since it was last shown (saturates at HIDE_DELAY)
  hideTimeouts,  \* the ms each pending setTimeout of the bar has waited
  menuEl,        \* context-menu.js: the menu elements created (elements), and
                 \* of menuEl its class 'hidden', its rows and its position
  lastShow,      \* the arguments of the last showContextMenu call and the
                 \* size of the menu it measured
  innerSize,     \* window.innerWidth and window.innerHeight
  boardData,     \* the data object of a rendered task board: its lists
                 \* (id, title, tasks) and their tasks (id, text, done)
  edit,          \* the inline edit input that has the focus, if any: what
                 \* it edits and its value
  seen,          \* the documents the onChange calls of the last handler of
                 \* the board were made with, in order
  views          \* per tab: the undo history of its editor (done, undone:
                 \* documents) and what its preview wrapper renders (at most
                 \* one content); the empty function in the specifications
                 \* that keep no record of them

vars == <<tabs, activeTabId, tabIdCounter, tab, timers, inflight, quiet,
          clockOn, sinceTrigger, gap, op, currentFontSize,
          window, sessionFile, toUI, atClose, recent, reAdds,
          idCounter, issued, todoText, todoData,
          docLine, rendered, mdText, mdBlocks, sent, tabsContainer,
          notificationBar, hideTimeouts, menuEl, lastShow, innerSize,
          boardData, edit, seen, views>>

\* The state of the task-checkbox plugin of an editor.
CheckboxVars == <<docLine, rendered>>

\* The state of the markdown preview.
MarkdownVars == <<mdText, mdBlocks>>

\* The state of the task-board parser.
TodoVars == <<idCounter, issued, todoText, todoData>>

\* The state the components outside the tab manager and the host keep.
PureVars == <<TodoVars, CheckboxVars, MarkdownVars>>

\* The state of the host process.
HostVars == <<window, sessionFile, toUI, atClose, recent, reAdds>>

\* The state of the page outside the editing surfaces.
\* The notification bar.
BannerVars == <<notificationBar, hideTimeouts>>

\* The context menu.
MenuVars == <<menuEl, lastShow, innerSize>>

\* A rendered task board.
BoardVars == <<boardData, edit, seen>>

Widgets == <<BannerVars, MenuVars, BoardVars, views>>

UiVars == <<tabsContainer, Widgets>>

\* The state outside the tab manager and the auto-save controllers.
Aux == <<currentFontSize, HostVars, PureVars, sent, UiVars>>

\* The state of the tab manager and the auto-save controllers.
TabVars == <<tabs, activeTabId, tabIdCounter, tab, timers, inflight, quiet,
             clockOn, sinceTrigger, gap>>

\* ----------------------------------------------------- pure helper functions
Min(a, b) == IF a < b THEN a ELSE b

Range(s) == {s[i] : i \in 1..Len(s)}

IndexOf(s, x) == IF x \in Range(s) THEN CHOOSE i \in 1..Len(s) : s[i] = x ELSE 0

RemoveAt(s, i) == SubSeq(s, 1, i - 1) \o SubSeq(s, i + 1, Len(s))

InsertAt(s, i, x) == SubSeq(s, 1, i - 1) \o <<x>> \o SubSeq(s, i, Len(s))

\* todo-renderer.js parseTodoData: the document of a JSON text with a lists
\* array, the empty document (number 0) for anything else.
parseTodoData(content) == IF content.layout = "text" THEN 0 ELSE content.val

\* todo-renderer.js serializeTodoData: always the pretty layout.
serializeTodoData(data) == Json(data, "pretty")

\* editor-manager.js getEditorContent: the text of the editor document.
getEditorContent(doc) == doc

\* The content a tab would write now (the data providers of createTab and
\* createTodoTab, and the content read by saveActiveTab / saveActiveTabAs).
LiveContent(t) == IF t.isTodo THEN serializeTodoData(t.doc) ELSE getEditorContent(t.doc)

\* shown is the set of the tab's document surfaces ("editor", "preview",
\* "todo") whose wrapper element has the class 'active'.
FreeTab == [filePath |-> null, title |-> "Untitled", modified |-> FALSE, isTodo |-> FALSE,
            readOnly |-> FALSE, content |-> Text(0), doc |-> Text(0), shown |-> {}]

\* getFilename(filePath): the last segment of the path; the paths of the
\* model are file names without a directory.
getFilename(filePath) == IF filePath \in {null, ""} THEN "Untitled" ELSE filePath

NewTab(filePath, content) ==
  [filePath |-> filePath, title |-> getFilename(filePath), modified |-> FALSE, isTodo |-> FALSE,
   readOnly |-> FALSE, content |-> content, doc |-> content, shown |-> {}]

NewTodoTab(filePath, content) ==
  [filePath |-> filePath, title |-> getFilename(filePath), modified |-> FALSE, isTodo |-> TRUE,
   readOnly |-> FALSE, content |-> content, doc |-> parseTodoData(content), shown |-> {}]

\* activateTab: the surface of the target that gets the class 'active'.
Surface(t) == IF t.isTodo THEN "todo" ELSE IF t.readOnly THEN "preview" ELSE "editor"

\* activateTab(tabId) on the tab objects: every open tab is deactivated,
\* then the surface of the target is activated.
activate(heap, open, tabId) ==
  [i \in DOMAIN heap |->
     IF i \notin Range(open) THEN heap[i]
     ELSE [heap[i] EXCEPT !.shown = IF i = tabId THEN {Surface(heap[i])} ELSE {}]]

\* A lookup that never finds the path.
FindByPath_never(filePath) == NoTab

\* tabs.find(t => t.filePath === filePath): the first open tab with the path.
FindByPath(filePath) ==
  LET hits == {i \in 1..Len(tabs) : tab[tabs[i]].filePath = filePath}
  IN IF hits = {} THEN NoTab ELSE tabs[CHOOSE i \in hits : \A j \in hits : i <= j]

\* ---------------------------------------------------------------- events
NoContent == Text(0)
Ev(e, id, content) == [e |-> e, id |-> id, content |-> content]
Op(name, id, path, res, via, n, events) ==
  [name |-> name, id |-> id, path |-> path, res |-> res, via |-> via, n |-> n,
   events |-> events]

\* ------------------------------------------------- auto-save controller
\* A timer of the event loop: ref is TRUE while debounceTimer / retryTimer
\* still holds its handle (only such a timer can be cleared), delay is the
\* setTimeout argument and age the time since it was armed.
Timer(kind, delay) == [kind |-> kind, ref |-> TRUE, delay |-> delay, age |-> 0]

\* cancel(): clears the two timers the controller holds a handle of.
cancel(tms) == SelectSeq(tms, LAMBDA x : ~x.ref)

\* xTimer = setTimeout(performSave, delay): the handle of an earlier timer
\* of that kind is overwritten, the earlier timer itself stays armed.
Unref(tms, kind) ==
  [i \in 1..Len(tms) |-> IF tms[i].kind = kind THEN [tms[i] EXCEPT !.ref = FALSE] ELSE tms[i]]

Arm(tms, kind, delay) == Append(Unref(tms, kind), Timer(kind, delay))

\* trigger() without its cancel().
trigger_keepsTimers(tms) == Arm(tms, "debounce", AUTOSAVE_DELAY)

\* trigger(): cancel(), then arm the debounce timer.
trigger(tms) == Arm(cancel(tms), "debounce", AUTOSAVE_DELAY)

\* A retry armed with the debounce delay.
ArmRetry_debounceDelay(tms) == Arm(tms, "retry", AUTOSAVE_DELAY)

\* The retry armed by a failed attempt.
ArmRetry(tms) == Arm(tms, "retry", RETRY_DELAY)

getSaveData(t) == [filePath |-> t.filePath, content |-> LiveContent(t)]

\* performSave up to its await: the request it sends, none for an untitled
\* document.
\* performSave without the check for an untitled document.
SkipsSave_never(data) == FALSE

SkipsSave(data) == data.filePath = null

performSave(id, via) ==
  LET data == getSaveData(tab[id])
  IN IF SkipsSave(data) THEN <<>>
     ELSE <<[id |-> id, kind |-> "auto", via |-> via,
             filePath |-> data.filePath, content |-> data.content]>>

SaveEvents(reqs) == [i \in 1..Len(reqs) |-> Ev("saveFile", reqs[i].id, reqs[i].content)]

AutoInflight(id) == Len(SelectSeq(inflight, LAMBDA r : r.id = id /\ r.kind = "auto"))

Chains(id, tms) == Len(tms) + AutoInflight(id)

\* A tab is busy while a timer of its controller is armed or a request
\* for it is unanswered.
Busy(id) == timers[id] # <<>> \/ \E k \in 1..Len(inflight) : inflight[k].id = id

InflightBound ==
  IF clockOn THEN MaxChains
  ELSE IF DOMAIN tab = TabIds THEN MaxTabInflight ELSE MaxStripInflight

ChainBound == IF clockOn THEN MaxChains ELSE MaxTabChains

\* Bound on the tabs that are busy at a time: tab id may start a save.
MayStart(id) ==
  Cardinality({j \in DOMAIN tab : Busy(j)} \cup {id})
    <= (IF DOMAIN tab = TabIds THEN MaxBusy ELSE MaxStripBusy)

\* The record of the last save request of each tab, after the requests reqs
\* were sent.
NotRecorded == <<>>

Record(reqs) ==
  [i \in DOMAIN sent |->
     LET mine == SelectSeq(reqs, LAMBDA r : r.id = i)
     IN IF mine = <<>> THEN sent[i] ELSE <<mine[Len(mine)].content>>]

\* -------------------------------------------------------------- initial
\* tab-manager.js:10: let currentFontSize = 15
DefaultFontSize == 15

\* The state outside the tab manager, as the modules are loaded.
\* A task-board text or document: json is FALSE for a text that is not JSON
\* or has no lists array.
NoBoard == [json |-> FALSE, lists |-> <<>>]

\* session.json: absent (loadSession returns null) or the object written last.
Session(files, readOnlyFiles, activeIndex, fontSize) ==
  [exists |-> TRUE, files |-> files, readOnlyFiles |-> readOnlyFiles,
   activeIndex |-> activeIndex, fontSize |-> fontSize]

NoSession == [Session(<<>>, <<>>, 0, DefaultFontSize) EXCEPT !.exists = FALSE]

\* No close request yet.
NoClose == [files |-> <<>>, active |-> null, readOnlyFiles |-> {},
            fontSize |-> DefaultFontSize, asked |-> FALSE, saved |-> FALSE,
            complete |-> FALSE, run |-> 0]

\* No checkbox is rendered.
NoWidget == [shown |-> FALSE, checked |-> FALSE, bracketStart |-> 0, bracketLen |-> 0]

\* tab-manager.js:785, renderer.js:194: setTimeout(..., 5000)
HIDE_DELAY == 5000

\* The module-level state as the modules are loaded; the counter of uid()
\* starts at Date.now(), written 1 here.
RestInit ==
  /\ currentFontSize = DefaultFontSize
  /\ window = "open"
  /\ sessionFile = NoSession
  /\ toUI = <<>>
  /\ atClose = NoClose
  /\ recent = <<>>
  /\ reAdds = 0
  /\ idCounter = 1
  /\ issued = <<>>
  /\ todoText = NoBoard
  /\ todoData = NoBoard
  /\ docLine = <<>>
  /\ rendered = NoWidget
  /\ mdText = <<>>
  /\ mdBlocks = <<>>

\* No inline edit input.
NoEdit == [kind |-> "none", list |-> 0, task |-> 0, value |-> <<>>]

\* No showContextMenu call yet.
NoShow == [items |-> <<>>, x |-> 0, y |-> 0, width |-> 0, height |-> 0]

\* The size of the window of the specifications that do not resize it.
DefaultInner == [w |-> 24, h |-> 24]

WidgetsInit ==
  /\ notificationBar = [hidden |-> TRUE, className |-> "", message |-> "", age |-> HIDE_DELAY]
  /\ hideTimeouts = <<>>
  /\ menuEl = [elements |-> 0, hidden |-> TRUE, rows |-> <<>>, left |-> 0, top |-> 0]
  /\ lastShow = NoShow
  /\ innerSize = DefaultInner
  /\ edit = NoEdit
  /\ seen = <<>>

\* The board of parseTodoData for a text without lists: { lists: [] }
EmptyBoard == [lists |-> <<>>]

AuxInit ==
  RestInit /\ WidgetsInit /\ boardData = EmptyBoard /\ sent = NotRecorded /\ views = NotRecorded

\* The tab manager as the module is loaded: no tab.
TabsInit ==
  /\ tabs = <<>>
  /\ tabsContainer = <<>>
  /\ activeTabId = NoTab
  /\ tabIdCounter = 0
  /\ tab = [i \in TabIds |-> FreeTab]
  /\ timers = [i \in TabIds |-> <<>>]
  /\ inflight = <<>>
  /\ quiet = [i \in TabIds |-> FALSE]
  /\ clockOn = FALSE
  /\ sinceTrigger = 0
  /\ gap = 0
  /\ op = Op("init", NoTab, null, "", "", 0, <<>>)

Init == TabsInit /\ AuxInit

Clock == <<clockOn, sinceTrigger, gap>>

\* Bookkeeping of a trigger() call, kept while the clock is on.
NoteTrigger ==
  /\ gap' = IF clockOn THEN sinceTrigger ELSE gap
  /\ sinceTrigger' = IF clockOn THEN 0 ELSE sinceTrigger

\* setModified(tabId, modified): a tab that left the tab sequence is not found.
setModified(heap, open, id, modified) ==
  IF id \in Range(open) THEN [heap EXCEPT ![id].modified = modified] ELSE heap

\* A tab object that left the tab sequence and that no armed timer and no
\* unanswered request refers to can be reached by nothing: it is dropped.
Collect(heap, open, tms, reqs) ==
  [i \in DOMAIN heap |->
     IF i \in Range(open) \/ tms[i] # <<>> \/ \E k \in 1..Len(reqs) : reqs[k].id = i
     THEN heap[i] ELSE FreeTab]

\* ----------------------------------------------------------- tab manager
\* element.remove(), for the strip entry of tab el
removeChild(children, el) == SelectSeq(children, LAMBDA c : c # el)

\* tabsContainer.appendChild(el): an entry that is a child already is moved
appendChild(children, el) == Append(removeChild(children, el), el)

\* The entry is put after the reference entry.
insertBefore_after(children, el, ref) ==
  LET rest == removeChild(children, el)
      at == IndexOf(rest, ref)
  IN IF at = 0 THEN Append(rest, el) ELSE InsertAt(rest, at + 1, el)

\* tabsContainer.insertBefore(el, ref): el is taken from where it is and
\* put before ref
insertBefore(children, el, ref) ==
  LET rest == removeChild(children, el)
      at == IndexOf(rest, ref)
  IN IF at = 0 THEN Append(rest, el) ELSE InsertAt(rest, at, el)

\* The counter is read and left as it is.
generateTabId_noIncrement(counter) == IF counter = 0 THEN 1 ELSE counter

\* generateTabId(): 'tab-' + (++tabIdCounter), as the number it carries
generateTabId(counter) == counter + 1

\* createTab(filePath, content), called within a handler
createTabCall(filePath, content) ==
  LET existing == IF filePath # null THEN FindByPath(filePath) ELSE NoTab
      id == generateTabId(tabIdCounter)
  IN IF existing # NoTab
     THEN /\ activeTabId' = existing
          /\ tab' = activate(tab, tabs, existing)
          /\ op' = Op("createTab", existing, filePath, "existing", "", 0, <<>>)
          /\ UNCHANGED <<tabs, tabIdCounter, timers, inflight, quiet, Clock, UiVars>>
     ELSE /\ id \in DOMAIN tab
          /\ tabIdCounter' = id
          /\ tabsContainer' = appendChild(tabsContainer, id)
          /\ tabs' = Append(tabs, id)
          /\ tab' = activate([tab EXCEPT ![id] = NewTab(filePath, content)], tabs', id)
          /\ activeTabId' = id
          /\ op' = Op("createTab", id, filePath, "new", "", 0, <<>>)
          /\ UNCHANGED <<timers, inflight, quiet, Clock, Widgets>>

\* A handler that only calls createTab (the file-opened and new-file messages).
createTab(filePath, content) ==
  createTabCall(filePath, content) /\ UNCHANGED <<currentFontSize, HostVars, PureVars, sent>>

\* createTodoTab(filePath, content), called within a handler
createTodoTabCall(filePath, content) ==
  LET existing == IF filePath # null THEN FindByPath(filePath) ELSE NoTab
      id == generateTabId(tabIdCounter)
  IN IF existing # NoTab
     THEN /\ activeTabId' = existing
          /\ tab' = activate(tab, tabs, existing)
          /\ op' = Op("createTodoTab", existing, filePath, "existing", "", 0, <<>>)
          /\ UNCHANGED <<tabs, tabIdCounter, timers, inflight, quiet, Clock, UiVars>>
     ELSE /\ id \in DOMAIN tab
          /\ tabIdCounter' = id
          /\ tabsContainer' = appendChild(tabsContainer, id)
          /\ tabs' = Append(tabs, id)
          /\ tab' = activate([tab EXCEPT ![id] = NewTodoTab(filePath, content)], tabs', id)
          /\ activeTabId' = id
          /\ op' = Op("createTodoTab", id, filePath, "new", "", 0, <<>>)
          /\ UNCHANGED <<timers, inflight, quiet, Clock, Widgets>>

\* A handler that only calls createTodoTab.
createTodoTab(filePath, content) ==
  createTodoTabCall(filePath, content) /\ UNCHANGED <<currentFontSize, HostVars, PureVars, sent>>

\* activateTab(tabId), from a click on the strip entry
activateTab(tabId) ==
  /\ tabId \in Range(tabs)
  /\ activeTabId' = tabId
  /\ tab' = activate(tab, tabs, tabId)
  /\ op' = Op("activateTab", tabId, null, "", "", 0, <<>>)
  /\ UNCHANGED <<tabs, tabIdCounter, timers, inflight, quiet, Clock, Aux>>

\* closeTab: the save that is forced before the teardown
CloseNeedsSave(t) == t.modified /\ t.filePath # null

\* The teardown first, the save after it.
CloseEvents_teardownFirst(tabId, reqs) ==
  <<Ev("destroy", tabId, NoContent), Ev("splice", tabId, NoContent)>> \o SaveEvents(reqs)

\* closeTab: what the handler does, in its order
CloseEvents(tabId, reqs) ==
  SaveEvents(reqs) \o <<Ev("destroy", tabId, NoContent), Ev("splice", tabId, NoContent)>>

\* updateWelcomeScreen(): what becomes of the "no tabs open" screen.
updateWelcomeScreen(open) == IF Len(open) = 0 THEN "welcomeShown" ELSE "welcomeHidden"

\* The first tab, whatever the index.
newActiveIndex_first(index, length) == 1

\* closeTab: Math.min(index, tabs.length - 1), as a position counted from 1
newActiveIndex(index, length) == Min(index, length)

\* The state closeTab works on, and what it has emitted.
Strip(open, active, heap, tms, reqs, quieted, events) ==
  [tabs |-> open, active |-> active, tab |-> heap, timers |-> tms, inflight |-> reqs,
   quiet |-> quieted, events |-> events]

Now == Strip(tabs, activeTabId, tab, timers, inflight, quiet, <<>>)

\* closeTab(tabId) on the state st: an unknown tabId changes nothing.  The
\* save request reads the tab object, which no closeTab call writes but
\* for its surfaces.
closeTabIn(st, tabId) ==
  LET index == IndexOf(st.tabs, tabId)
      reqs == IF CloseNeedsSave(st.tab[tabId]) THEN performSave(tabId, "saveNow") ELSE <<>>
      rest == RemoveAt(st.tabs, index)
      removed == [st.tab EXCEPT ![tabId].shown = {}]
      next == IF Len(rest) > 0 THEN rest[newActiveIndex(index, Len(rest))] ELSE NoTab
  IN IF index = 0 THEN st
     ELSE Strip(rest,
                IF st.active = tabId THEN next ELSE st.active,
                IF st.active = tabId /\ next # NoTab THEN activate(removed, rest, next)
                ELSE removed,
                [st.timers EXCEPT ![tabId] = cancel(@)],
                st.inflight \o reqs,
                [st.quiet EXCEPT ![tabId] = TRUE],
                st.events \o CloseEvents(tabId, reqs))

\* toClose.forEach(id => closeTab(id))
RECURSIVE closeEach(_, _)
closeEach(st, toClose) ==
  IF toClose = <<>> THEN st ELSE closeEach(closeTabIn(st, Head(toClose)), Tail(toClose))

\* The tabs closeTab was run for: those of before that after has not.
Closed(before, after) == SelectSeq(before, LAMBDA id : id \notin Range(after))

\* tab.tabElement.remove(), for each tab closed
RECURSIVE removeEach(_, _)
removeEach(children, closed) ==
  IF closed = <<>> THEN children
  ELSE removeEach(removeChild(children, Head(closed)), Tail(closed))

\* closeTab(tabId)
closeTab(tabId) ==
  \E st \in {closeTabIn(Now, tabId)} :
     /\ tabId \in Range(tabs)
     /\ Len(st.inflight) <= InflightBound
     /\ st.inflight # inflight => MayStart(tabId)
     /\ timers' = st.timers
     /\ quiet' = st.quiet
     /\ inflight' = st.inflight
     /\ tabs' = st.tabs
     /\ tabsContainer' = removeEach(tabsContainer, Closed(tabs, st.tabs))
     /\ activeTabId' = st.active
     /\ tab' = Collect(st.tab, tabs', timers', inflight')
     /\ sent' = Record(SubSeq(st.inflight, Len(inflight) + 1, Len(st.inflight)))
     /\ op' = Op("closeTab", tabId, tab[tabId].filePath, "", updateWelcomeScreen(st.tabs), 0,
                 st.events)
     /\ UNCHANGED <<tabIdCounter, Clock, currentFontSize, HostVars, PureVars, Widgets>>

\* An insertion at the end, whatever the index.
SpliceIn_append(s, start, x) == Append(s, x)

\* Array.prototype.splice(start, 0, x): a negative start counts from the end.
SpliceIn(s, start, x) ==
  LET at == IF start < 0 THEN (IF Len(s) + start < 0 THEN 0 ELSE Len(s) + start)
            ELSE Min(start, Len(s))
  IN InsertAt(s, at + 1, x)

\* tabs[i] of JavaScript, i counted from 0: NoTab (undefined) out of range
ElementAt(s, i) == IF i \in 0..(Len(s) - 1) THEN s[i + 1] ELSE NoTab

\* reorderTab: the entry the moved entry is put before, NoTab for none.
\*   tabs[newIndex === tabs.length - 1 ? newIndex : newIndex + 1]
\*     ? tabs[newIndex + 1]?.tabElement : null
targetEl(newTabs, newIndex) ==
  IF ElementAt(newTabs, IF newIndex = Len(newTabs) - 1 THEN newIndex ELSE newIndex + 1) # NoTab
  THEN ElementAt(newTabs, newIndex + 1)
  ELSE NoTab

\* reorderTab(movedTabId, targetTabId, before), from a drop on a strip entry
reorderTab(movedTabId, targetTabId, before) ==
  LET movedIndex == IndexOf(tabs, movedTabId)
      targetIndex == IndexOf(tabs, targetTabId)
      removed == RemoveAt(tabs, movedIndex)
      found == IndexOf(removed, targetTabId) - 1
      newIndex == IF before THEN found ELSE found + 1
  IN /\ movedIndex # 0
     /\ targetIndex # 0
     /\ tabs' = SpliceIn(removed, newIndex, movedTabId)
     /\ tabsContainer' =
          IF targetEl(tabs', newIndex) # NoTab
          THEN insertBefore(tabsContainer, movedTabId, targetEl(tabs', newIndex))
          ELSE appendChild(tabsContainer, movedTabId)
     /\ op' = Op("reorderTab", movedTabId, null, IF before THEN "before" ELSE "after", "",
                 targetTabId, <<>>)
     /\ UNCHANGED <<activeTabId, tabIdCounter, tab, timers, inflight, quiet, Clock,
                    currentFontSize, HostVars, PureVars, sent, Widgets>>

\* The change callbacks of createEditorWrapper and createTodoTab: the user
\* changes the document of the visible tab to newDoc.
\* Every edit marks the tab modified.
Dirty_everyEdit(newContent, savedContent) == TRUE

Dirty(newContent, savedContent) == newContent # savedContent

EditCall(id, newDoc) ==
  LET t == [tab[id] EXCEPT !.doc = newDoc]
      isModified == Dirty(LiveContent(t), t.content)
  IN /\ id = activeTabId
     /\ id \in Range(tabs)
     /\ newDoc # tab[id].doc
     /\ tab' = [tab EXCEPT ![id] = [t EXCEPT !.modified = isModified]]
     /\ IF isModified
        THEN /\ Chains(id, trigger(timers[id])) <= ChainBound /\ MayStart(id)
             /\ timers' = [timers EXCEPT ![id] = trigger(@)]
             /\ quiet' = [quiet EXCEPT ![id] = FALSE]
             /\ NoteTrigger
        ELSE UNCHANGED <<timers, quiet, gap, sinceTrigger>>
     /\ op' = Op("edit", id, null, IF isModified THEN "trigger" ELSE "", "", 0, <<>>)
     /\ UNCHANGED <<tabs, activeTabId, tabIdCounter, inflight, clockOn>>

Edit(id, newDoc) == EditCall(id, newDoc) /\ UNCHANGED Aux

EditDocs(id) == IF tab[id].isTodo THEN Vals ELSE Texts

\* saveActiveTab(), up to its await; an untitled tab goes to saveActiveTabAs
\* saveActiveTabAs(), up to its await
SaveRequest(id, kind) ==
  [id |-> id, kind |-> kind, via |-> "",
   filePath |-> IF kind = "save" THEN tab[id].filePath ELSE null,
   content |-> LiveContent(tab[id])]

saveActiveTabAs ==
  /\ activeTabId # NoTab
  /\ Len(inflight) < InflightBound
  /\ MayStart(activeTabId)
  /\ inflight' = Append(inflight, SaveRequest(activeTabId, "saveAs"))
  /\ sent' = Record(<<SaveRequest(activeTabId, "saveAs")>>)
  /\ op' = Op("saveActiveTabAs", activeTabId, null, "", "", 0,
              <<Ev("saveFileAs", activeTabId, LiveContent(tab[activeTabId]))>>)
  /\ UNCHANGED <<tabs, activeTabId, tabIdCounter, tab, timers, quiet, Clock,
                 currentFontSize, HostVars, PureVars, UiVars>>

saveActiveTab ==
  /\ activeTabId # NoTab
  /\ Len(inflight) < InflightBound
  /\ MayStart(activeTabId)
  /\ LET kind == IF tab[activeTabId].filePath = null THEN "saveAs" ELSE "save"
     IN /\ inflight' = Append(inflight, SaveRequest(activeTabId, kind))
        /\ sent' = Record(<<SaveRequest(activeTabId, kind)>>)
        /\ op' = Op("saveActiveTab", activeTabId, null, kind, "", 0,
                    <<Ev(IF kind = "save" THEN "saveFile" ELSE "saveFileAs",
                         activeTabId, LiveContent(tab[activeTabId]))>>)
  /\ UNCHANGED <<tabs, activeTabId, tabIdCounter, tab, timers, quiet, Clock,
                 currentFontSize, HostVars, PureVars, UiVars>>

\* ------------------------------------------------ answers of the host
\* The success callback of a tab's auto-save controller (createTab,
\* createTodoTab): the baseline becomes the content the tab has now.
onSaveSuccess(heap, open, id) ==
  setModified([heap EXCEPT ![id].content = LiveContent(heap[id])], open, id, FALSE)

\* performSave after its await, res in {"ok", "fail", "throw"}
performSaveDone(r, res) ==
  IF res = "ok"
  THEN /\ tab' = Collect(onSaveSuccess(tab, tabs, r.id), tabs, timers, inflight')
       /\ op' = Op("performSaveDone", r.id, r.filePath, res, r.via, 0,
                   <<Ev("onSaveSuccess", r.id, NoContent)>>)
       /\ UNCHANGED timers
  ELSE /\ timers' = [timers EXCEPT ![r.id] = ArmRetry(@)]
       /\ op' = Op("performSaveDone", r.id, r.filePath, res, r.via, 0,
                   <<Ev("onSaveError", r.id, NoContent)>>)
       /\ UNCHANGED tab

\* saveActiveTab after its await
saveActiveTabDone(r, res) ==
  /\ IF res = "ok"
     THEN tab' = Collect(setModified([tab EXCEPT ![r.id].content = r.content],
                                     tabs, r.id, FALSE), tabs, timers, inflight')
     ELSE tab' = Collect(tab, tabs, timers, inflight')
  /\ op' = Op("saveActiveTabDone", r.id, r.filePath, res, "", 0,
              IF res = "fail" THEN <<Ev("showNotification", r.id, NoContent)>> ELSE <<>>)
  /\ UNCHANGED timers

\* The host answers a save-file request (writeFile never raises; "throw" is
\* a rejected invoke).
SaveFileDone(i, res) ==
  /\ i \in 1..Len(inflight)
  /\ inflight[i].kind \in {"auto", "save"}
  /\ inflight' = RemoveAt(inflight, i)
  /\ IF inflight[i].kind = "auto"
     THEN performSaveDone(inflight[i], res)
     ELSE saveActiveTabDone(inflight[i], res)
  /\ UNCHANGED <<tabs, activeTabId, tabIdCounter, quiet, Clock, Aux>>

\* saveActiveTabAs after its await: the dialog was canceled, or the file
\* chosen in it (any path) was written ("ok") or not ("fail").
\* The path and the baseline go to the tab that is active at the answer.
onSavedAs_activeNow(heap, open, r, filePath) ==
  IF activeTabId = NoTab THEN heap
  ELSE setModified([heap EXCEPT ![activeTabId].filePath = filePath,
                                ![activeTabId].title = getFilename(filePath),
                                ![activeTabId].content = r.content],
                   open, activeTabId, FALSE)

\* saveActiveTabAs, result.success with a filePath: the tab object the call
\* started with gets the path, the title and the content it sent
onSavedAs(heap, open, r, filePath) ==
  setModified([heap EXCEPT ![r.id].filePath = filePath,
                           ![r.id].title = getFilename(filePath),
                           ![r.id].content = r.content],
              open, r.id, FALSE)

SaveFileAsDone(i, res, filePath) ==
  /\ i \in 1..Len(inflight)
  /\ inflight[i].kind = "saveAs"
  /\ inflight' = RemoveAt(inflight, i)
  /\ LET r == inflight[i]
     IN /\ IF res = "ok"
           THEN tab' = Collect(onSavedAs(tab, tabs, r, filePath), tabs, timers, inflight')
           ELSE tab' = Collect(tab, tabs, timers, inflight')
        /\ op' = Op("saveActiveTabAsDone", r.id, IF res = "canceled" THEN null ELSE filePath,
                    res, "", 0,
                    IF res = "fail" THEN <<Ev("showNotification", r.id, NoContent)>> ELSE <<>>)
  /\ UNCHANGED <<tabs, activeTabId, tabIdCounter, timers, quiet, Clock, Aux>>

\* ------------------------------------------------------------- timers
\* A timer of controller id fires: performSave runs up to its await.  With
\* the clock on it fires when its delay has passed; without a clock, at any
\* moment.
TimerFire(id, i) ==
  /\ i \in 1..Len(timers[id])
  /\ LET tm == timers[id][i]
         reqs == performSave(id, tm.kind)
     IN /\ clockOn => tm.age = tm.delay
        /\ Len(inflight) + Len(reqs) <= InflightBound
        /\ timers' = [timers EXCEPT ![id] = RemoveAt(@, i)]
        /\ inflight' = inflight \o reqs
        /\ sent' = Record(reqs)
        /\ tab' = Collect(tab, tabs, timers', inflight')
        /\ op' = Op("timerFire", id, null, "", tm.kind, tm.age, SaveEvents(reqs))
  /\ UNCHANGED <<tabs, activeTabId, tabIdCounter, quiet, Clock,
                 currentFontSize, HostVars, PureVars, UiVars>>

\* d ms pass; no armed timer is overdue.
Tick(d) ==
  /\ clockOn
  /\ \A id \in TabIds : \A i \in 1..Len(timers[id]) : timers[id][i].age + d <= timers[id][i].delay
  /\ timers' = [id \in TabIds |->
                  [i \in 1..Len(timers[id]) |-> [timers[id][i] EXCEPT !.age = @ + d]]]
  /\ sinceTrigger' = Min(sinceTrigger + d, SinceCap)
  /\ op' = Op("tick", NoTab, null, "", "", d, <<>>)
  /\ UNCHANGED <<tabs, activeTabId, tabIdCounter, tab, inflight, quiet, clockOn, gap, Aux>>

\* ------------------------------ direct calls of one auto-save controller
\* tab.autoSave.trigger()
Trigger(id) ==
  /\ Chains(id, trigger(timers[id])) <= ChainBound /\ MayStart(id)
  /\ timers' = [timers EXCEPT ![id] = trigger(@)]
  /\ quiet' = [quiet EXCEPT ![id] = FALSE]
  /\ NoteTrigger
  /\ op' = Op("trigger", id, null, "", "", 0, <<>>)
  /\ UNCHANGED <<tabs, activeTabId, tabIdCounter, tab, inflight, clockOn, Aux>>

\* tab.autoSave.saveNow(), up to the await in performSave
SaveNow(id) ==
  LET reqs == performSave(id, "saveNow")
  IN /\ Chains(id, cancel(timers[id])) + Len(reqs) <= ChainBound
     /\ Len(inflight) + Len(reqs) <= InflightBound
     /\ timers' = [timers EXCEPT ![id] = cancel(@)]
     /\ inflight' = inflight \o reqs
     /\ sent' = Record(reqs)
     /\ quiet' = [quiet EXCEPT ![id] = FALSE]
     /\ op' = Op("saveNow", id, null, "", "", 0, SaveEvents(reqs))
     /\ UNCHANGED <<tabs, activeTabId, tabIdCounter, tab, Clock,
                    currentFontSize, HostVars, PureVars, UiVars>>

\* tab.autoSave.cancel()
Cancel(id) ==
  /\ timers' = [timers EXCEPT ![id] = cancel(@)]
  /\ quiet' = [quiet EXCEPT ![id] = TRUE]
  /\ op' = Op("cancel", id, null, "", "", 0, <<>>)
  /\ UNCHANGED <<tabs, activeTabId, tabIdCounter, tab, inflight, Clock, Aux>>

\* ------------------------------------------------------- specifications
Results == {"ok", "fail", "throw"}

\* The tab manager, without a clock.
Next ==
  \/ \E p \in Paths \cup {null}, c \in Texts : createTab(p, c)
  \/ \E p \in Paths, c \in TodoFiles : createTodoTab(p, c)
  \/ \E id \in TabIds : activateTab(id)
  \/ \E id \in TabIds : closeTab(id)
  \/ \E m, t \in TabIds, before \in BOOLEAN : m # t /\ reorderTab(m, t, before)
  \/ \E id \in TabIds : \E d \in EditDocs(id) : Edit(id, d)
  \/ saveActiveTab
  \/ saveActiveTabAs
  \/ \E i \in 1..MaxChains, res \in Results : SaveFileDone(i, res)
  \/ \E i \in 1..MaxChains, res \in {"ok", "fail", "canceled"}, p \in Paths :
       SaveFileAsDone(i, res, p)
  \/ \E id \in TabIds, i \in 1..MaxChains : TimerFire(id, i)

Spec == Init /\ [][Next]_vars

\* One tab and its auto-save controller, as createTab wires it, driven
\* through the three calls of the controller while the tab is open, with the
\* clock on.
AutoTabInit ==
  /\ \E p \in {null, "p1"} :
       tab = activate([i \in TabIds |-> IF i = 1 THEN NewTab(p, Text(0)) ELSE FreeTab], <<1>>, 1)
  /\ tabs = <<1>>
  /\ tabsContainer = <<1>>
  /\ activeTabId = 1
  /\ tabIdCounter = 1
  /\ timers = [i \in TabIds |-> <<>>]
  /\ inflight = <<>>
  /\ quiet = [i \in TabIds |-> FALSE]
  /\ clockOn = TRUE
  /\ sinceTrigger = SinceCap
  /\ gap = 0
  /\ op = Op("init", NoTab, null, "", "", 0, <<>>)

AutoInit == AuxInit /\ AutoTabInit

AutoNext ==
  \/ 1 \in Range(tabs) /\ Trigger(1)
  \/ 1 \in Range(tabs) /\ SaveNow(1)
  \/ 1 \in Range(tabs) /\ Cancel(1)
  \/ closeTab(1)
  \/ \E d \in Texts : Edit(1, d)
  \/ \E i \in 1..MaxChains, res \in Results : SaveFileDone(i, res)
  \/ \E i \in 1..MaxChains : TimerFire(1, i)
  \/ \E d \in TickSteps : Tick(d)

AutoSpec == AutoInit /\ [][AutoNext]_vars

\* The same tab and controller, with the record of the last save request.
CloseInit ==
  /\ RestInit
  /\ WidgetsInit
  /\ boardData = EmptyBoard
  /\ views = NotRecorded
  /\ AutoTabInit
  /\ sent = [i \in TabIds |-> <<>>]

\* What the application does with the tab: edits, the timers, the answers
\* of the host, saveAllModifiedTabs when the window loses the focus (saveNow
\* for a modified tab that has a path), and closeTab.
CloseNext ==
  \/ \E d \in Texts : Edit(1, d)
  \/ 1 \in Range(tabs) /\ tab[1].modified /\ tab[1].filePath # null /\ SaveNow(1)
  \/ closeTab(1)
  \/ \E i \in 1..MaxChains, res \in Results : SaveFileDone(i, res)
  \/ \E i \in 1..MaxChains : TimerFire(1, i)
  \/ \E d \in TickSteps : Tick(d)

CloseSpec == CloseInit /\ [][CloseNext]_vars

\* ------------------------------------------------------------- font size
\* renderer.js:130,133,173: the limits of the font size
MinFontSize == 8
MaxFontSize == 32

Max(a, b) == IF a > b THEN a ELSE b

\* An argument of a message: a number, or a value of another type.
Num(n) == [type |-> "number", v |-> n]
NotNum == [type |-> "string", v |-> 0]

\* Zoom in without the upper limit.
ZoomIn_unclamped(size) == size + 1

ZoomIn(size) == Min(size + 1, MaxFontSize)

ZoomOut(size) == Max(size - 1, MinFontSize)

\* The switch of the zoom handler: any other direction leaves the size.
Zoomed(size, direction) ==
  CASE direction = "in" -> ZoomIn(size)
    [] direction = "out" -> ZoomOut(size)
    [] direction = "reset" -> DefaultFontSize
    [] OTHER -> size

\* updateFontSize(size): the size of every editor follows currentFontSize.
updateFontSize(size) == currentFontSize' = size

\* electronAPI.onZoom(direction)
onZoom(direction) ==
  /\ updateFontSize(Zoomed(currentFontSize, direction))
  /\ op' = Op("zoom", NoTab, null, "", direction, currentFontSize, <<>>)
  /\ UNCHANGED <<TabVars, sent, UiVars, HostVars, PureVars>>

AcceptsFontSize(size) ==
  size.type = "number" /\ size.v >= MinFontSize /\ size.v <= MaxFontSize

\* electronAPI.onRestoreFontSize(size)
onRestoreFontSize(size) ==
  /\ IF AcceptsFontSize(size) THEN updateFontSize(size.v) ELSE UNCHANGED currentFontSize
  /\ op' = Op("restoreFontSize", NoTab, null,
              IF AcceptsFontSize(size) THEN "applied" ELSE "ignored", size.type, size.v, <<>>)
  /\ UNCHANGED <<TabVars, sent, UiVars, HostVars, PureVars>>

\* The directions the menu sends, and the sizes a session file can hold.
Directions == {"in", "out", "reset"}
FontArgs == {Num(n) : n \in (MinFontSize - 1)..(MaxFontSize + 1)} \cup {NotNum}

\* The font size alone, driven by the zoom and restore messages.
ZoomInit == TabsInit /\ AuxInit

ZoomNext ==
  \/ \E d \in Directions : onZoom(d)
  \/ \E v \in FontArgs : onRestoreFontSize(v)

ZoomSpec == ZoomInit /\ [][ZoomNext]_vars


\* ------------------------------------------------- read-only and session
\* A toggle without the test for a task board.
toggled_anyTab(t, isActive) ==
  IF ~t.readOnly
  THEN [t EXCEPT !.readOnly = TRUE, !.shown = (@ \ {"editor"}) \cup {"preview"}]
  ELSE [t EXCEPT !.readOnly = FALSE,
                 !.shown = (@ \ {"preview"}) \cup (IF isActive THEN {"editor"} ELSE {})]

\* toggleReadOnly on the tab object t, isActive when activeTabId is its id:
\* a task board is left; entering read-only mode shows the preview, leaving
\* it hides the preview and shows the editor of the active tab.
toggled(t, isActive) ==
  IF t.isTodo THEN t
  ELSE IF ~t.readOnly
       THEN [t EXCEPT !.readOnly = TRUE, !.shown = (@ \ {"editor"}) \cup {"preview"}]
  ELSE [t EXCEPT !.readOnly = FALSE,
                 !.shown = (@ \ {"preview"}) \cup (IF isActive THEN {"editor"} ELSE {})]

\* toggleReadOnly(tabId): a tab that is not open or is a task board is left.
toggleReadOnlyCall(tabId) ==
  /\ tabId \in Range(tabs)
  /\ tab' = [tab EXCEPT ![tabId] = toggled(@, activeTabId = tabId)]
  /\ op' = Op("toggleReadOnly", tabId, null, "", "", 0, <<>>)
  /\ UNCHANGED <<tabs, activeTabId, tabIdCounter, timers, inflight, quiet, Clock>>

toggleReadOnly(tabId) == toggleReadOnlyCall(tabId) /\ UNCHANGED Aux

\* tabs.filter(t => keep has t).map(t => t.filePath)
PathsOf(open, heap, keep) ==
  LET kept == SelectSeq(open, LAMBDA id : id \in keep)
  IN [i \in 1..Len(kept) |-> heap[kept[i]].filePath]

\* getSessionData(): activeIndex is the index in tabs (from 0), -1 raised to 0.
getSessionData ==
  Session(PathsOf(tabs, tab, {id \in DOMAIN tab : tab[id].filePath # null}),
          PathsOf(tabs, tab, {id \in DOMAIN tab : tab[id].filePath # null /\ tab[id].readOnly}),
          Max(0, IndexOf(tabs, activeTabId) - 1),
          currentFontSize)

\* activateTabByIndex(index): the tab activated, the active one when out of range
activateTabByIndex(index) ==
  IF index >= 0 /\ index < Len(tabs) THEN tabs[index + 1] ELSE activeTabId

\* filePaths.forEach(fp => setReadOnlyByPath(fp)): the first tab with the
\* path is toggled unless it is read-only.
setReadOnlyByPaths(filePaths) ==
  [id \in DOMAIN tab |->
     IF /\ \E k \in 1..Len(filePaths) : FindByPath(filePaths[k]) = id
        /\ ~tab[id].readOnly
     THEN toggled(tab[id], activeTabId = id) ELSE tab[id]]


\* ----------------------------------------------- window close and restore
\* A message of the host to the UI process.
Msg(type, path, n, paths) == [type |-> type, path |-> path, n |-> n, paths |-> paths]

\* The user acts on the window once the messages sent to it are handled,
\* in the first MaxLaunches runs of the application.
MaxLaunches == 1

Ready == window = "open" /\ toUI = <<>> /\ atClose.run < MaxLaunches

\* mainWindow.on('close'): the request is sent; nothing holds the window.
CloseRequest ==
  /\ Ready
  /\ window' = "closing"
  /\ toUI' = Append(toUI, Msg("request-session-data", null, 0, <<>>))
  /\ atClose' = [files |-> PathsOf(tabs, tab, {id \in DOMAIN tab : tab[id].filePath # null}),
                 active |-> IF activeTabId = NoTab THEN null ELSE tab[activeTabId].filePath,
                 readOnlyFiles |-> {tab[id].filePath : id \in {j \in Range(tabs) :
                                      tab[j].filePath # null /\ tab[j].readOnly}},
                 fontSize |-> currentFontSize,
                 asked |-> TRUE, saved |-> FALSE, complete |-> FALSE,
                 run |-> atClose.run]
  /\ op' = Op("closeRequest", NoTab, null, "", "", 0, <<>>)
  /\ UNCHANGED <<TabVars, sent, UiVars, currentFontSize, sessionFile, recent, reAdds, PureVars>>

\* session-store.js saveSession(session): a failed write is swallowed.
saveSession(session, res) == IF res = "ok" THEN session ELSE sessionFile

\* electronAPI.onRequestSessionData with the save-session-sync handler of
\* the host, which runs while the UI process waits for the reply.
onRequestSessionData(res) ==
  /\ toUI # <<>> /\ Head(toUI).type = "request-session-data"
  /\ toUI' = Tail(toUI)
  /\ sessionFile' = saveSession(getSessionData, res)
  /\ atClose' = [atClose EXCEPT !.saved = (res = "ok")]
  /\ op' = Op("requestSessionData", NoTab, null, res, "", 0, <<>>)
  /\ UNCHANGED <<TabVars, sent, UiVars, currentFontSize, window, recent, reAdds, PureVars>>

\* The window closes: the UI process ends with what it had not handled.
WindowClosed ==
  /\ window = "closing"
  /\ window' = "closed"
  /\ toUI' = <<>>
  /\ op' = Op("closed", NoTab, null, "", "", Len(toUI), <<>>)
  /\ UNCHANGED <<TabVars, sent, UiVars, currentFontSize, sessionFile, atClose, recent, reAdds, PureVars>>

\* The session branch of did-finish-load: the messages it sends when the
\* files in readable exist and can be read.
RestoreMessages(session, readable) ==
  IF session.exists /\ Len(session.files) > 0
  THEN LET files == SelectSeq(session.files, LAMBDA fp : fp \in readable)
       IN [i \in 1..Len(files) |-> Msg("file-opened", files[i], 0, <<>>)]
          \o <<Msg("restore-active-tab", null, session.activeIndex, <<>>)>>
          \o <<Msg("restore-font-size", null, session.fontSize, <<>>)>>
          \o (IF Len(session.readOnlyFiles) > 0
              THEN <<Msg("restore-read-only", null, 0, session.readOnlyFiles)>>
              ELSE <<>>)
  ELSE <<>>

\* The application is launched without file arguments: the UI process
\* starts from its module state, the host restores the session.
Launch(readable) ==
  /\ window = "closed"
  /\ window' = "open"
  /\ tabs' = <<>>
  /\ tabsContainer' = <<>>
  /\ activeTabId' = NoTab
  /\ tabIdCounter' = 0
  /\ tab' = [i \in DOMAIN tab |-> FreeTab]
  /\ currentFontSize' = DefaultFontSize
  /\ toUI' = RestoreMessages(sessionFile, readable)
  /\ atClose' = [atClose EXCEPT !.complete = (Range(sessionFile.files) \subseteq readable),
                                !.run = @ + 1]
  /\ op' = Op("launch", NoTab, null, "", "", 0, <<>>)
  /\ UNCHANGED <<timers, inflight, quiet, Clock, sessionFile, recent, reAdds, PureVars, sent, Widgets>>

\* electronAPI.onFileOpened(data), for a markdown file
onFileOpened ==
  /\ toUI # <<>> /\ Head(toUI).type = "file-opened"
  /\ toUI' = Tail(toUI)
  /\ createTabCall(Head(toUI).path, Text(Head(toUI).n))
  /\ UNCHANGED <<currentFontSize, window, sessionFile, atClose, recent, reAdds, PureVars, sent>>

\* electronAPI.onRestoreActiveTab(index)
onRestoreActiveTab ==
  /\ toUI # <<>> /\ Head(toUI).type = "restore-active-tab"
  /\ toUI' = Tail(toUI)
  /\ activeTabId' = activateTabByIndex(Head(toUI).n)
  /\ tab' = IF Head(toUI).n >= 0 /\ Head(toUI).n < Len(tabs)
            THEN activate(tab, tabs, activeTabId') ELSE tab
  /\ op' = Op("restoreActiveTab", activeTabId', null, "", "", Head(toUI).n, <<>>)
  /\ UNCHANGED <<tabs, tabIdCounter, timers, inflight, quiet, Clock,
                 currentFontSize, window, sessionFile, atClose, recent, reAdds, PureVars, sent, UiVars>>

\* electronAPI.onRestoreFontSize(size), for a message of the host
onRestoreFontSizeMsg ==
  /\ toUI # <<>> /\ Head(toUI).type = "restore-font-size"
  /\ toUI' = Tail(toUI)
  /\ IF AcceptsFontSize(Num(Head(toUI).n)) THEN updateFontSize(Head(toUI).n)
     ELSE UNCHANGED currentFontSize
  /\ op' = Op("restoreFontSize", NoTab, null, "", "number", Head(toUI).n, <<>>)
  /\ UNCHANGED <<TabVars, sent, UiVars, window, sessionFile, atClose, recent, reAdds, PureVars>>

\* electronAPI.onRestoreReadOnly(filePaths)
onRestoreReadOnly ==
  /\ toUI # <<>> /\ Head(toUI).type = "restore-read-only"
  /\ toUI' = Tail(toUI)
  /\ tab' = setReadOnlyByPaths(Head(toUI).paths)
  /\ op' = Op("restoreReadOnly", NoTab, null, "", "", 0, <<>>)
  /\ UNCHANGED <<tabs, activeTabId, tabIdCounter, timers, inflight, quiet, Clock,
                 currentFontSize, window, sessionFile, atClose, recent, reAdds, PureVars, sent, UiVars>>

\* The tab strip and the session: tabs of markdown files and untitled tabs
\* are opened, activated, moved, made read-only and closed, the font size is
\* changed, and the window is closed and the application launched again.
MaxStripTabs == 3
MaxZoomSteps == 1
StripIds == 1..MaxStripTabs

SessionInit ==
  /\ AuxInit
  /\ tabs = <<>>
  /\ tabsContainer = <<>>
  /\ activeTabId = NoTab
  /\ tabIdCounter = 0
  /\ tab = [i \in StripIds |-> FreeTab]
  /\ timers = [i \in StripIds |-> <<>>]
  /\ inflight = <<>>
  /\ quiet = [i \in StripIds |-> FALSE]
  /\ clockOn = FALSE
  /\ sinceTrigger = 0
  /\ gap = 0
  /\ op = Op("init", NoTab, null, "", "", 0, <<>>)

SessionNext ==
  \/ Ready /\ \E p \in Paths \cup {null} : createTab(p, Text(0))
  \/ Ready /\ \E id \in StripIds : activateTab(id)
  \/ Ready /\ \E id \in StripIds : closeTab(id)
  \/ Ready /\ \E m, t \in StripIds, before \in BOOLEAN : m # t /\ reorderTab(m, t, before)
  \/ Ready /\ \E id \in StripIds : toggleReadOnly(id)
  \/ Ready /\ \E d \in {"in", "reset"} :
       currentFontSize + 1 <= DefaultFontSize + MaxZoomSteps /\ onZoom(d)
  \/ CloseRequest
  \/ \E res \in {"ok", "fail"} : onRequestSessionData(res)
  \/ WindowClosed
  \/ \E readable \in SUBSET Paths : Launch(readable)
  \/ onFileOpened
  \/ onRestoreActiveTab
  \/ onRestoreFontSizeMsg
  \/ onRestoreReadOnly

SessionSpec == SessionInit /\ [][SessionNext]_vars


\* ------------------------------------------------ recent files, file opens
\* recent-files.js: const MAX_RECENT = 10
MAX_RECENT == 10

\* A file path of the recent list is a number, 1..MaxRecentPaths.
MaxRecentPaths == 11
MaxReAdds == 1

\* What the file system does to one call: both accesses succeed, the read
\* of recent.json fails (getRecentFiles returns []), or the write fails.
FileIO == {"ok", "readFail", "writeFail"}

Without(files, filePath) == SelectSeq(files, LAMBDA f : f # filePath)

\* addRecentFile without the slice to MAX_RECENT.
addRecentFile_noTrim(files, filePath, io) ==
  IF io = "writeFail" THEN files
  ELSE <<filePath>> \o Without(IF io = "readFail" THEN <<>> ELSE files, filePath)

\* addRecentFile(filePath): the list stored afterwards
addRecentFile(files, filePath, io) ==
  LET read == IF io = "readFail" THEN <<>> ELSE files
      added == <<filePath>> \o Without(read, filePath)
      trimmed == IF Len(added) > MAX_RECENT THEN SubSeq(added, 1, MAX_RECENT) ELSE added
  IN IF io = "writeFail" THEN files ELSE trimmed

\* clearRecentFiles(): the list stored afterwards
clearRecentFiles(files, io) == IF io = "writeFail" THEN files ELSE <<>>

\* The least path that is not in the list, and the paths a call may name:
\* that one, and while the bound allows, every path of the list.
Fresh == CHOOSE p \in 1..MaxRecentPaths :
           p \notin Range(recent) /\ \A q \in 1..MaxRecentPaths : q \notin Range(recent) => p <= q

OpenPaths == {Fresh} \cup (IF reAdds < MaxReAdds THEN Range(recent) ELSE {})

NoteReAdd(filePath) ==
  reAdds' = IF filePath \in Range(recent) THEN Min(reAdds + 1, MaxReAdds) ELSE reAdds

HostEv(e, filePath) == [e |-> e, id |-> filePath, content |-> NoContent]

\* openFilePath(filePath), reached from the open dialog ("menu"), an Open
\* Recent entry ("recent") and the open-file event of the OS ("os"); res is
\* the result of readFile.
openFilePath(entry, filePath, res, io) ==
  /\ window = "open"
  /\ entry = "recent" => filePath \in Range(recent)
  /\ IF res = "ok"
     THEN /\ recent' = addRecentFile(recent, filePath, io)
          /\ op' = Op(entry, NoTab, null, res, io, filePath, <<HostEv("file-opened", filePath)>>)
     ELSE /\ recent' = recent
          /\ op' = Op(entry, NoTab, null, res, io, filePath,
                      <<HostEv("show-notification:error", filePath)>>)
  /\ NoteReAdd(filePath)
  /\ UNCHANGED <<TabVars, sent, UiVars, currentFontSize, window, sessionFile, toUI, atClose, PureVars>>

\* One file argument in the command line: of this launch, handled in
\* did-finish-load ("argv"), or of a second launch, handled in
\* second-instance ("second").  Both do nothing when the read fails.
openArgument(entry, filePath, res, io) ==
  /\ window = "open"
  /\ IF res = "ok"
     THEN /\ recent' = addRecentFile(recent, filePath, io)
          /\ op' = Op(entry, NoTab, null, res, io, filePath, <<HostEv("file-opened", filePath)>>)
     ELSE /\ recent' = recent
          /\ op' = Op(entry, NoTab, null, res, io, filePath, <<>>)
  /\ NoteReAdd(filePath)
  /\ UNCHANGED <<TabVars, sent, UiVars, currentFontSize, window, sessionFile, toUI, atClose, PureVars>>

\* ipcMain.handle('save-file'): res is the result of writeFile.
saveFileHandler(filePath, res, io) ==
  /\ recent' = IF res = "ok" THEN addRecentFile(recent, filePath, io) ELSE recent
  /\ op' = Op("save-file", NoTab, null, res, io, filePath, <<>>)
  /\ NoteReAdd(filePath)
  /\ UNCHANGED <<TabVars, sent, UiVars, currentFontSize, window, sessionFile, toUI, atClose, PureVars>>

\* The Clear Recent entry of the menu
clearRecent(io) ==
  /\ recent # <<>>
  /\ recent' = clearRecentFiles(recent, io)
  /\ op' = Op("clear-recent", NoTab, null, "", io, 0, <<>>)
  /\ UNCHANGED <<TabVars, sent, UiVars, currentFontSize, window, sessionFile, toUI, atClose, reAdds, PureVars>>

\* The recent list alone: files are opened from the dialog and read, and the
\* list is cleared.
RecentInit == TabsInit /\ AuxInit

RecentNext ==
  \/ \E p \in OpenPaths, io \in FileIO : openFilePath("menu", p, "ok", io)
  \/ \E io \in FileIO : clearRecent(io)

RecentSpec == RecentInit /\ [][RecentNext]_vars

\* The host process opening and saving the files 1..MaxOpenPaths, readable
\* or not, from every entry point.
MaxOpenPaths == 2

OpenInit == TabsInit /\ AuxInit

OpenNext ==
  \/ \E e \in {"menu", "recent", "os"}, p \in 1..MaxOpenPaths, res \in {"ok", "fail"}, io \in FileIO :
       openFilePath(e, p, res, io)
  \/ \E e \in {"argv", "second"}, p \in 1..MaxOpenPaths, res \in {"ok", "fail"}, io \in FileIO :
       openArgument(e, p, res, io)
  \/ \E p \in 1..MaxOpenPaths, res \in {"ok", "fail"}, io \in FileIO : saveFileHandler(p, res, io)
  \/ \E io \in FileIO : clearRecent(io)

OpenSpec == OpenInit /\ [][OpenNext]_vars

\* -------------------------------------------------- task-board identifiers
\* Bounds of the task-board texts: lists, tasks of a list, distinct
\* identifiers written in a file, identifiers uid() returns.
MaxLists == 2
MaxTasks == 2
MaxFileIds == 1
MaxIssued == 6

\* An identifier: NoId for a missing or falsy id member, a negative number
\* for an identifier written in the file, the counter value n for the
\* identifier 'td-' + n.toString(36) of uid().
NoId == 0
FileIds == {0 - k : k \in 1..MaxFileIds}
TextIds == {NoId} \cup FileIds

TaskSeqs == UNION {[1..n -> [id : TextIds]] : n \in 0..MaxTasks}

\* A list of a text: hasTasks is FALSE when its tasks member is no array.
TextLists == {l \in [id : TextIds, hasTasks : BOOLEAN, tasks : TaskSeqs] :
                ~l.hasTasks => l.tasks = <<>>}

BoardTexts ==
  {[json |-> FALSE, layout |-> "compact", lists |-> <<>>]}
    \cup {[json |-> TRUE, layout |-> "compact", lists |-> ls] :
            ls \in UNION {[1..n -> TextLists] : n \in 0..MaxLists}}

\* The identifiers parseTodoData has to make up for a list.
MissingIn(list) ==
  (IF list.id = NoId THEN 1 ELSE 0)
    + Cardinality({k \in 1..Len(list.tasks) : list.tasks[k].id = NoId})

RECURSIVE MissingBefore(_, _)
MissingBefore(lists, i) ==
  IF i <= 1 THEN 0 ELSE MissingBefore(lists, i - 1) + MissingIn(lists[i - 1])

\* Every identifier is made up anew.
Fill_always(id, fresh) == fresh

\* if (!x.id) x.id = uid()
Fill(id, fresh) == IF id = NoId THEN fresh ELSE id

\* parseTodoData(content) with the counter of uid() at the call: the
\* document and the counter afterwards.  The lists are walked in order, the
\* identifier of a list before those of its tasks.
parseBoard(text, counter) ==
  IF ~text.json THEN [data |-> [json |-> TRUE, lists |-> <<>>], counter |-> counter]
  ELSE LET base(i) == counter + MissingBefore(text.lists, i)
           newList(i) ==
             LET l == text.lists[i]
                 first == base(i) + (IF l.id = NoId THEN 1 ELSE 0)
             IN [id |-> Fill(l.id, base(i)),
                 hasTasks |-> TRUE,
                 tasks |-> [k \in 1..Len(l.tasks) |->
                              [id |-> Fill(l.tasks[k].id,
                                           first + Cardinality({m \in 1..(k - 1) :
                                                                  l.tasks[m].id = NoId}))]]]
       IN [data |-> [json |-> TRUE, lists |-> [i \in 1..Len(text.lists) |-> newList(i)]],
           counter |-> counter + MissingBefore(text.lists, Len(text.lists) + 1)]

\* serializeTodoData(data): JSON.stringify(data, null, 2) + '\n' writes every
\* list and task with its members.
serializeBoard(data) == [json |-> TRUE, layout |-> "pretty", lists |-> data.lists]

\* A task-board file is read.
LoadBoard(text) ==
  /\ todoText' = text
  /\ todoData' = NoBoard
  /\ op' = Op("loadBoard", NoTab, null, "", "", 0, <<>>)
  /\ UNCHANGED <<TabVars, sent, UiVars, currentFontSize, HostVars, idCounter, issued, CheckboxVars, MarkdownVars>>

\* parseTodoData(todoText)
ParseBoard ==
  LET r == parseBoard(todoText, idCounter)
  IN /\ op.name # "init"
     /\ Len(issued) + (r.counter - idCounter) <= MaxIssued
     /\ todoData' = r.data
     /\ idCounter' = r.counter
     /\ issued' = issued \o [k \in 1..(r.counter - idCounter) |-> idCounter + k - 1]
     /\ op' = Op("parseBoard", NoTab, null, op.name, "", r.counter - idCounter, <<>>)
     /\ UNCHANGED <<TabVars, sent, UiVars, currentFontSize, HostVars, todoText, CheckboxVars, MarkdownVars>>

\* serializeTodoData(todoData) becomes the file text.
SerializeBoard ==
  /\ todoData.json
  /\ todoText' = serializeBoard(todoData)
  /\ op' = Op("serializeBoard", NoTab, null, "", "", 0, <<>>)
  /\ UNCHANGED <<TabVars, sent, UiVars, currentFontSize, HostVars, idCounter, issued, todoData, CheckboxVars, MarkdownVars>>

\* The task-board parser applied to the texts of BoardTexts and to what it
\* wrote itself.
TodoInit == TabsInit /\ AuxInit

TodoNext ==
  \/ \E text \in BoardTexts : LoadBoard(text)
  \/ ParseBoard
  \/ SerializeBoard

TodoSpec == TodoInit /\ [][TodoNext]_vars


\* -------------------------------------------------- task-checkbox plugin
\* Bound of the length of the document line.
MaxLineLen == 6

\* The characters of a line: the list marker, the space, the brackets and
\* a letter.
Chars == {"-", " ", "[", "]", "x"}

\* \s and [-*+] over Chars.
IsSpace(c) == c = " "
IsMarker(c) == c = "-"

\* The number of white-space characters of text from index i on.
RECURSIVE SpaceRun(_, _)
SpaceRun(text, i) ==
  IF i <= Len(text) /\ IsSpace(text[i]) THEN 1 + SpaceRun(text, i + 1) ELSE 0

At(text, i) == IF i \in 1..Len(text) THEN text[i] ELSE ""

\* TASK_RE.exec(text): prefix is the length of match[1], checkChar match[2].
TaskMatch(text) ==
  LET lead == SpaceRun(text, 1)
      gapLen == SpaceRun(text, lead + 2)
      b == lead + 2 + gapLen
      none == [ok |-> FALSE, prefix |-> 0, checkChar |-> ""]
  IN IF ~IsMarker(At(text, lead + 1)) \/ gapLen = 0 \/ At(text, b) # "[" THEN none
     ELSE IF At(text, b + 1) \in {" ", "x", "X"} /\ At(text, b + 2) = "]"
          THEN [ok |-> TRUE, prefix |-> b - 1, checkChar |-> At(text, b + 1)]
     ELSE IF At(text, b + 1) = "]"
          THEN [ok |-> TRUE, prefix |-> b - 1, checkChar |-> ""]
     ELSE none

\* buildDecorations(view) for the one line, which starts at offset 0: the
\* widget of its decoration.
buildDecorations(text) ==
  LET match == TaskMatch(text)
  IN IF ~match.ok THEN NoWidget
     ELSE [shown |-> TRUE,
           checked |-> match.checkChar \in {"x", "X"},
           bracketStart |-> match.prefix,
           bracketLen |-> IF match.checkChar = "" THEN 2 ELSE 3]

\* CheckboxWidget.eq(other)
eq(this, other) ==
  this.checked = other.checked /\ this.bracketStart = other.bracketStart

\* The document from offset from to offset to replaced by insert.
Change(text, from, to, insert) ==
  SubSeq(text, 1, from) \o insert \o SubSeq(text, to + 1, Len(text))

\* The plugin's update(update) after the document changed to text: the
\* decorations are built anew.  Where the new widget is eq() to the one
\* shown, the editor may keep the DOM element it has (keep), whose click
\* listener belongs to the widget that drew it; otherwise it draws the new
\* widget with toDOM().
update(text, keep) ==
  LET widget == buildDecorations(text)
  IN rendered' = IF rendered.shown /\ widget.shown /\ eq(widget, rendered) /\ keep
                 THEN rendered
                 ELSE widget

\* The user types the character c at offset at.
InsertChar(at, c, keep) ==
  /\ Len(docLine) < MaxLineLen
  /\ at \in 0..Len(docLine)
  /\ docLine' = Change(docLine, at, at, <<c>>)
  /\ update(docLine', keep)
  /\ op' = Op("insertChar", NoTab, null, "", "", 0, <<>>)
  /\ UNCHANGED <<TabVars, sent, UiVars, currentFontSize, HostVars, TodoVars, MarkdownVars>>

\* The user deletes the character at offset at.
DeleteChar(at, keep) ==
  /\ at \in 0..(Len(docLine) - 1)
  /\ docLine' = Change(docLine, at, at + 1, <<>>)
  /\ update(docLine', keep)
  /\ op' = Op("deleteChar", NoTab, null, "", "", 0, <<>>)
  /\ UNCHANGED <<TabVars, sent, UiVars, currentFontSize, HostVars, TodoVars, MarkdownVars>>

\* The click listener of the element shown: view.dispatch of the change,
\* which the editor rejects when it reaches past the end of the document.
Click(keep) ==
  LET to == rendered.bracketStart + rendered.bracketLen
      newBracket == IF rendered.checked THEN <<"[", " ", "]">> ELSE <<"[", "x", "]">>
  IN /\ rendered.shown
     /\ Len(docLine) - rendered.bracketLen + 3 <= MaxLineLen
     /\ IF to <= Len(docLine)
        THEN /\ docLine' = Change(docLine, rendered.bracketStart, to, newBracket)
             /\ update(docLine', keep)
        ELSE UNCHANGED <<docLine, rendered>>
     /\ op' = Op("click", NoTab, null, IF to <= Len(docLine) THEN "ok" ELSE "RangeError",
                 "", rendered.bracketLen, <<>>)
     /\ UNCHANGED <<TabVars, sent, UiVars, currentFontSize, HostVars, TodoVars, MarkdownVars>>

\* One editor with the plugin, its document one line that starts empty.
CheckboxInit == TabsInit /\ AuxInit

CheckboxNext ==
  \E keep \in BOOLEAN :
    \/ \E at \in 0..MaxLineLen, c \in Chars : InsertChar(at, c, keep)
    \/ \E at \in 0..MaxLineLen : DeleteChar(at, keep)
    \/ Click(keep)

CheckboxSpec == CheckboxInit /\ [][CheckboxNext]_vars


\* -------------------------------------------------- markdown preview
\* Bound of the length of the markdown text.
MaxMdChars == 6

\* The characters of a text: a letter, the pipe, the hyphen, the colon, the
\* space and the line break.  With these the rules for blank lines,
\* horizontal rules, tables, lists and paragraphs apply; fences, headings,
\* quotes and ordered lists need characters that are not among them.
MdChars == {"a", "|", "-", ":", " ", "\n"}

\* text.split(sep)
RECURSIVE SplitOn(_, _)
SplitOn(text, sep) ==
  IF \A k \in 1..Len(text) : text[k] # sep THEN <<text>>
  ELSE LET at == CHOOSE k \in 1..Len(text) :
                   text[k] = sep /\ \A m \in 1..(k - 1) : text[m] # sep
       IN <<SubSeq(text, 1, at - 1)>> \o SplitOn(SubSeq(text, at + 1, Len(text)), sep)

\* line.trim()
RECURSIVE Trim(_)
Trim(line) ==
  IF line = <<>> THEN line
  ELSE IF Head(line) = " " THEN Trim(Tail(line))
  ELSE IF line[Len(line)] = " " THEN Trim(SubSeq(line, 1, Len(line) - 1))
  ELSE line

\* line.includes(c)
Includes(line, c) == \E k \in 1..Len(line) : line[k] = c

\* /^[\s|:-]+$/.test(line)
CharsetOk(line) == line # <<>> /\ \A k \in 1..Len(line) : line[k] \in {" ", "|", ":", "-"}

\* The test of the next line that parseTable and the paragraph loop share.
LooksLikeSeparator(line) == CharsetOk(Trim(line)) /\ Includes(line, "-")

\* parseCells(line)
parseCells(line) ==
  LET t == Trim(line)
      a == IF t # <<>> /\ Head(t) = "|" THEN Tail(t) ELSE t
      b == IF a # <<>> /\ a[Len(a)] = "|" THEN SubSeq(a, 1, Len(a) - 1) ELSE a
      cells == SplitOn(b, "|")
  IN [k \in 1..Len(cells) |-> Trim(cells[k])]

\* /^:?-+:?$/.test(c)
CellOk(c) ==
  LET a == IF c # <<>> /\ Head(c) = ":" THEN Tail(c) ELSE c
      b == IF a # <<>> /\ a[Len(a)] = ":" THEN SubSeq(a, 1, Len(a) - 1) ELSE a
  IN b # <<>> /\ \A k \in 1..Len(b) : b[k] = "-"

\* The horizontal-rule test of a trimmed line; of [-*_] the hyphen is among
\* MdChars.
IsRule(trimmed) ==
  /\ trimmed # <<>>
  /\ Head(trimmed) = "-"
  /\ \A k \in 1..Len(trimmed) : trimmed[k] \in {"-", " "}
  /\ Cardinality({k \in 1..Len(trimmed) : trimmed[k] = "-"}) >= 3

\* /^\s*[-*+]\s/.test(line)
IsListItem(line) ==
  LET lead == SpaceRun(line, 1)
  IN At(line, lead + 1) = "-" /\ At(line, lead + 2) = " "

\* A block of the output: its rule and the lines it was made of.
Block(kind, from, to) == [kind |-> kind, from |-> from, to |-> to]

\* parseTable returns null.
NoBlock == Block("none", 0, 0)

\* The first line after the body rows of a table, from line i on.
RECURSIVE TableEnd(_, _)
TableEnd(lines, i) ==
  IF i > Len(lines) THEN i
  ELSE IF Trim(lines[i]) = <<>> \/ ~Includes(Trim(lines[i]), "|") THEN i
  ELSE TableEnd(lines, i + 1)

\* parseTable(lines, startIndex): the table block, or NoBlock.
parseTable(lines, startIndex) ==
  IF startIndex + 1 > Len(lines) THEN NoBlock
  ELSE IF ~LooksLikeSeparator(lines[startIndex + 1]) THEN NoBlock
  ELSE LET sepCells == parseCells(Trim(lines[startIndex + 1]))
       IN IF \E k \in 1..Len(sepCells) : ~CellOk(sepCells[k]) THEN NoBlock
          ELSE Block("table", startIndex, TableEnd(lines, startIndex + 2) - 1)

\* parseList: the first line after the continuation lines of an item.
RECURSIVE ItemEnd(_, _)
ItemEnd(lines, j) ==
  IF j > Len(lines) THEN j
  ELSE IF Trim(lines[j]) = <<>>
       THEN IF j + 1 <= Len(lines) /\ IsListItem(lines[j + 1]) THEN j + 1 ELSE j
  ELSE IF SpaceRun(lines[j], 1) >= 2 /\ ~IsListItem(lines[j]) THEN ItemEnd(lines, j + 1)
  ELSE j

\* parseList: the first line after the list that has an item at line i.
RECURSIVE ListEnd(_, _)
ListEnd(lines, i) ==
  IF i > Len(lines) \/ ~IsListItem(lines[i]) THEN i
  ELSE ListEnd(lines, ItemEnd(lines, i + 1))

\* line.match(/^>\s?/)
StartsQuote(line) == line # <<>> /\ Head(line) = ">"

\* line.replace(/^>\s?/, '')
Unquote(line) ==
  IF ~StartsQuote(line) THEN line
  ELSE IF Len(line) >= 2 /\ line[2] = " " THEN SubSeq(line, 3, Len(line))
  ELSE Tail(line)

\* The loop of parseBlockquote: the index i it stops at, from line i on.
RECURSIVE QuoteEnd(_, _)
QuoteEnd(lines, i) ==
  IF i > Len(lines) THEN i
  ELSE IF StartsQuote(lines[i]) THEN QuoteEnd(lines, i + 1)
  ELSE IF Trim(lines[i]) = <<>> /\ i + 1 <= Len(lines) /\ StartsQuote(lines[i + 1])
       THEN QuoteEnd(lines, i + 1)
  ELSE i

\* parseBlockquote: quoteLines, of the lines from..to.
quoteLines(lines, from, to) ==
  [k \in 1..(to - from + 1) |->
     IF StartsQuote(lines[from + k - 1]) THEN Unquote(lines[from + k - 1]) ELSE <<>>]

\* A block sequence that ends with the mark of a loop that makes no
\* progress: the call that builds it does not return.
Hangs(blocks) == blocks # <<>> /\ blocks[Len(blocks)].kind = "hang"

\* The paragraph loop: the first line it does not push, count lines pushed.
RECURSIVE ParaEnd(_, _, _)
ParaEnd(lines, i, count) ==
  IF i > Len(lines) THEN i
  ELSE LET pLine == lines[i]
           pTrimmed == Trim(pLine)
       IN IF \/ pTrimmed = <<>>
             \/ StartsQuote(pLine)
             \/ IsListItem(pLine) /\ count = 0
             \/ IsRule(pTrimmed)
             \/ /\ Includes(pTrimmed, "|")
                /\ i + 1 <= Len(lines)
                /\ LooksLikeSeparator(lines[i + 1])
          THEN i
          ELSE ParaEnd(lines, i + 1, count + 1)

\* The loop of renderMarkdown from line i on: the blocks it pushes.  A
\* pass that leaves i where it was is repeated for ever: the blocks end with
\* the mark "hang" at that line.  parseBlockquote renders the lines of the
\* quote itself (joining them with line breaks and splitting them again
\* gives the same lines) and does not return if that call does not.
RECURSIVE renderFrom(_, _)
renderFrom(lines, i) ==
  IF i > Len(lines) THEN <<>>
  ELSE LET line == lines[i]
           trimmed == Trim(line)
           table == IF Includes(trimmed, "|") /\ i + 1 <= Len(lines)
                    THEN parseTable(lines, i) ELSE NoBlock
           paraEnd == ParaEnd(lines, i, 0)
           quoteEnd == QuoteEnd(lines, i)
       IN IF trimmed = <<>> THEN renderFrom(lines, i + 1)
          ELSE IF IsRule(trimmed) THEN <<Block("hr", i, i)>> \o renderFrom(lines, i + 1)
          ELSE IF table # NoBlock THEN <<table>> \o renderFrom(lines, table.to + 1)
          ELSE IF Head(trimmed) = ">"
               THEN IF Hangs(renderFrom(quoteLines(lines, i, quoteEnd - 1), 1)) \/ quoteEnd <= i
                    THEN <<Block("hang", i, i)>>
                    ELSE <<Block("blockquote", i, quoteEnd - 1)>> \o renderFrom(lines, quoteEnd)
          ELSE IF IsListItem(line)
               THEN <<Block("list", i, ListEnd(lines, i) - 1)>>
                      \o renderFrom(lines, ListEnd(lines, i))
          ELSE IF paraEnd > i
               THEN <<Block("p", i, paraEnd - 1)>> \o renderFrom(lines, paraEnd)
          ELSE renderFrom(lines, i + 1)

\* renderMarkdown(md)
renderMarkdown(md) == renderFrom(SplitOn(md, "\n"), 1)

\* The text of the tab gets one more character.
TypeMd(c) ==
  /\ Len(mdText) < MaxMdChars
  /\ mdText' = Append(mdText, c)
  /\ mdBlocks' = <<>>
  /\ op' = Op("typeMd", NoTab, null, "", "", 0, <<>>)
  /\ UNCHANGED <<TabVars, sent, UiVars, currentFontSize, HostVars, TodoVars, CheckboxVars>>

\* The preview of the text is made.
RenderPreview ==
  /\ op.name # "renderMarkdown"
  /\ mdBlocks' = renderMarkdown(mdText)
  /\ op' = Op("renderMarkdown", NoTab, null, "", "", 0, <<>>)
  /\ UNCHANGED <<TabVars, sent, UiVars, currentFontSize, HostVars, TodoVars, CheckboxVars, mdText>>

\* The renderer applied to every text of up to MaxMdChars characters.
MarkdownInit == TabsInit /\ AuxInit

MarkdownNext ==
  \/ \E c \in MdChars : TypeMd(c)
  \/ RenderPreview

MarkdownSpec == MarkdownInit /\ [][MarkdownNext]_vars

\* The renderer applied to the texts of a letter, the quote mark, the
\* hyphen, the space and the line break.
QuoteChars == {"a", ">", "-", " ", "\n"}

QuoteInit == TabsInit /\ AuxInit

QuoteNext ==
  \/ \E c \in QuoteChars : TypeMd(c)
  \/ RenderPreview

QuoteSpec == QuoteInit /\ [][QuoteNext]_vars


\* ------------------------------------------------ the file-opened message
\* The paths of the messages: a markdown file, a .json file, a file whose
\* extension is written in capitals, and the empty path.
RoutePaths == {"a.md", "b.json", "c.JSON", ""}

\* String.prototype.endsWith, on the paths above.
endsWith(filePath, suffix) ==
  \/ suffix = ".json" /\ filePath = "b.json"
  \/ suffix = ".JSON" /\ filePath = "c.JSON"
  \/ suffix = ".md" /\ filePath = "a.md"

\* The contents of the messages.  A text is a content whose layout says
\* what it is: the texts and task-board files above, the empty string, and
\* JSON texts that are no task board.  Absent is a content member that is
\* null or undefined.
Absent == [val |-> 0, layout |-> "absent"]
Empty == [val |-> 0, layout |-> "empty"]
OtherLayouts == {"json null", "json number", "json array", "json object",
                 "json lists number", "json lists object"}
OtherJsons == {[val |-> 0, layout |-> l] : l \in OtherLayouts}
RouteContents == {Absent, Empty, Text(1)} \cup TodoFiles \cup OtherJsons

\* JSON.parse(content): whether it returns, and of the value it returns,
\* whether it is truthy and what its member 'lists' is.
Value(ok, truthy, lists) == [ok |-> ok, truthy |-> truthy, lists |-> lists]

JSONparse(content) ==
  IF content.layout \in {"compact", "pretty"} THEN Value(TRUE, TRUE, "array")
  ELSE IF content.layout \in {"json null", "json number"} THEN Value(TRUE, FALSE, "undefined")
  ELSE IF content.layout \in {"json array", "json object"} THEN Value(TRUE, TRUE, "undefined")
  ELSE IF content.layout = "json lists number" THEN Value(TRUE, TRUE, "number")
  ELSE IF content.layout = "json lists object" THEN Value(TRUE, TRUE, "object")
  ELSE Value(FALSE, FALSE, "undefined")

\* Every text that parses is taken for a task board.
isTodoJson_anyJson(content) == JSONparse(content).ok

\* isTodoJson(content): data && Array.isArray(data.lists), false when
\* JSON.parse throws
isTodoJson(content) ==
  LET data == JSONparse(content)
  IN data.ok /\ data.truthy /\ data.lists = "array"

FileOpened(filePath, content) ==
  [type |-> "file-opened", data |-> [filePath |-> filePath, content |-> content]]

\* The host sends a file-opened message.
sendFileOpened(filePath, content) ==
  /\ toUI = <<>>
  /\ toUI' = <<FileOpened(filePath, content)>>
  /\ op' = Op("send", NoTab, filePath, "", "", 0, <<>>)
  /\ UNCHANGED <<TabVars, sent, UiVars, currentFontSize, window, sessionFile, atClose, recent, reAdds,
                 PureVars>>

\* electronAPI.onFileOpened(data)
onFileOpenedData ==
  /\ toUI # <<>> /\ Head(toUI).type = "file-opened"
  /\ toUI' = Tail(toUI)
  /\ LET data == Head(toUI).data
     IN IF data.filePath \notin {null, ""} /\ data.content # Absent
        THEN IF endsWith(data.filePath, ".json") /\ isTodoJson(data.content)
             THEN createTodoTabCall(data.filePath, data.content)
             ELSE createTabCall(data.filePath, data.content)
        ELSE /\ op' = Op("fileOpened", NoTab, data.filePath, "ignored", "", 0, <<>>)
             /\ UNCHANGED <<TabVars, UiVars>>
  /\ UNCHANGED <<sent, currentFontSize, window, sessionFile, atClose, recent, reAdds, PureVars>>

\* Files of every kind are opened, one message at a time, and tabs are
\* closed.
RouteInit == TabsInit /\ AuxInit

RouteNext ==
  \/ \E p \in RoutePaths \cup {null}, c \in RouteContents : sendFileOpened(p, c)
  \/ onFileOpenedData
  \/ \E id \in TabIds : closeTab(id)

RouteSpec == RouteInit /\ [][RouteNext]_vars

\* -------------------------------------------------------- the tab strip
\* A batch close: closeTab for each tab of toClose, in order.
closeTabs(name, tabId, toClose) ==
  \E st \in {closeEach(Now, toClose)} :
     /\ Len(st.inflight) <= InflightBound
     /\ timers' = st.timers
     /\ quiet' = st.quiet
     /\ inflight' = st.inflight
     /\ tabs' = st.tabs
     /\ tabsContainer' = removeEach(tabsContainer, Closed(tabs, st.tabs))
     /\ activeTabId' = st.active
     /\ tab' = Collect(st.tab, tabs', timers', inflight')
     /\ sent' = Record(SubSeq(st.inflight, Len(inflight) + 1, Len(st.inflight)))
     /\ op' = Op(name, tabId, null, "", updateWelcomeScreen(st.tabs), Len(toClose), st.events)
     /\ UNCHANGED <<tabIdCounter, Clock, currentFontSize, HostVars, PureVars, Widgets>>

\* closeTab(tabId) for a tabId that no tab of the tab sequence has
closeUnknownTab(tabId) ==
  \E st \in {closeTabIn(Now, tabId)} :
     /\ tabId \notin Range(tabs)
     /\ timers' = st.timers
     /\ quiet' = st.quiet
     /\ inflight' = st.inflight
     /\ tabs' = st.tabs
     /\ activeTabId' = st.active
     /\ tab' = st.tab
     /\ op' = Op("closeTab", tabId, null, "unknown", "", 0, st.events)
     /\ UNCHANGED <<tabIdCounter, Clock, Aux>>

\* closeOtherTabs(keepTabId), from the context menu of the tab
closeOtherTabs(keepTabId) ==
  /\ keepTabId \in Range(tabs)
  /\ closeTabs("closeOtherTabs", keepTabId, SelectSeq(tabs, LAMBDA id : id # keepTabId))

\* The tab itself is closed with the tabs to its right.
closeTabsToRight_inclusive(tabId) ==
  LET index == IndexOf(tabs, tabId)
  IN /\ index # 0
     /\ closeTabs("closeTabsToRight", tabId, SubSeq(tabs, index, Len(tabs)))

\* closeTabsToRight(tabId), from the context menu of the tab
closeTabsToRight(tabId) ==
  LET index == IndexOf(tabs, tabId)
  IN /\ index # 0
     /\ closeTabs("closeTabsToRight", tabId, SubSeq(tabs, index + 1, Len(tabs)))

\* closeAllTabs(), from the context menu of a tab
closeAllTabs ==
  /\ tabs # <<>>
  /\ closeTabs("closeAllTabs", NoTab, tabs)

\* closeActiveTab()
closeActiveTab ==
  /\ activeTabId # NoTab
  /\ closeTabs("closeActiveTab", activeTabId, <<activeTabId>>)

\* The tab after the last one is no tab: the index stays at the end.
nextIndex_noWrap(index, length) == Min(index + 1, length - 1)

\* nextTab: (index + 1) % tabs.length; indices count from 0, findIndex
\* gives -1 for no tab.
nextIndex(index, length) == (index + 1) % length

\* prevTab: (index - 1 + tabs.length) % tabs.length
prevIndex(index, length) == (index - 1 + length) % length

\* nextTab()
nextTab ==
  IF Len(tabs) <= 1
  THEN /\ op' = Op("nextTab", activeTabId, null, "none", "", 0, <<>>)
       /\ UNCHANGED <<TabVars, Aux>>
  ELSE /\ activeTabId' = tabs[nextIndex(IndexOf(tabs, activeTabId) - 1, Len(tabs)) + 1]
       /\ tab' = activate(tab, tabs, activeTabId')
       /\ op' = Op("nextTab", activeTabId', null, "", "", 0, <<>>)
       /\ UNCHANGED <<tabs, tabIdCounter, timers, inflight, quiet, Clock, Aux>>

\* prevTab()
prevTab ==
  IF Len(tabs) <= 1
  THEN /\ op' = Op("prevTab", activeTabId, null, "none", "", 0, <<>>)
       /\ UNCHANGED <<TabVars, Aux>>
  ELSE /\ activeTabId' = tabs[prevIndex(IndexOf(tabs, activeTabId) - 1, Len(tabs)) + 1]
       /\ tab' = activate(tab, tabs, activeTabId')
       /\ op' = Op("prevTab", activeTabId', null, "", "", 0, <<>>)
       /\ UNCHANGED <<tabs, tabIdCounter, timers, inflight, quiet, Clock, Aux>>

\* toggleActiveReadOnly()
toggleActiveReadOnly ==
  /\ activeTabId # NoTab
  /\ tab' = [tab EXCEPT ![activeTabId] = toggled(@, TRUE)]
  /\ op' = Op("toggleActiveReadOnly", activeTabId, null, "", "", 0, <<>>)
  /\ UNCHANGED <<tabs, activeTabId, tabIdCounter, timers, inflight, quiet, Clock, Aux>>

\* setReadOnlyByPath(filePath)
setReadOnlyByPath(filePath) ==
  /\ tab' = setReadOnlyByPaths(<<filePath>>)
  /\ op' = Op("setReadOnlyByPath", FindByPath(filePath), filePath, "", "", 0, <<>>)
  /\ UNCHANGED <<tabs, activeTabId, tabIdCounter, timers, inflight, quiet, Clock, Aux>>

\* The tab strip: tabs of both kinds are opened, activated, moved, made
\* read-only and closed, singly and in batches.
StripInit == SessionInit

StripNext ==
  \/ \E p \in Paths \cup {null} : createTab(p, Text(0))
  \/ \E p \in Paths : createTodoTab(p, Json(0, "pretty"))
  \/ \E id \in StripIds : activateTab(id)
  \/ nextTab
  \/ prevTab
  \/ \E id \in StripIds : closeTab(id)
  \/ \E id \in StripIds : closeUnknownTab(id)
  \/ closeActiveTab
  \/ \E id \in StripIds : closeOtherTabs(id)
  \/ \E id \in StripIds : closeTabsToRight(id)
  \/ closeAllTabs
  \/ \E m, t \in StripIds, before \in BOOLEAN : m # t /\ reorderTab(m, t, before)
  \/ \E id \in StripIds : toggleReadOnly(id)
  \/ toggleActiveReadOnly
  \/ \E p \in Paths : setReadOnlyByPath(p)

StripSpec == StripInit /\ [][StripNext]_vars

\* Closing tabs that have unsaved edits: tabs are opened, edited and
\* closed, singly and in batches, while their saves run and succeed.
BatchInit == SessionInit

BatchNext ==
  \/ \E p \in Paths \cup {null} : createTab(p, Text(0))
  \/ \E id \in StripIds : activateTab(id)
  \/ \E id \in StripIds : closeTab(id)
  \/ \E id \in StripIds : closeOtherTabs(id)
  \/ \E id \in StripIds : closeTabsToRight(id)
  \/ closeAllTabs
  \/ \E id \in StripIds : \E d \in EditDocs(id) : Edit(id, d)
  \/ \E i \in 1..MaxStripInflight : SaveFileDone(i, "ok")
  \/ \E id \in StripIds, i \in 1..MaxTabChains : TimerFire(id, i)

BatchSpec == BatchInit /\ [][BatchNext]_vars


\* ------------------------------------------------- the notification bar
MaxHideTimeouts == 2

\* The granule of time of the bar's clock, in ms.
BannerStep == 1000

BannerTypes == {"error", "info"}

\* What the bar's handlers leave alone.
OutsideBar == <<TabVars, currentFontSize, HostVars, PureVars, sent, tabsContainer, MenuVars,
                BoardVars, views>>

\* The bar after showNotification(type, message)
shownBar(type, message) ==
  [hidden |-> FALSE, className |-> IF type = "error" THEN "error" ELSE "",
   message |-> message, age |-> 0]

\* Every banner arms the timeout.
armed_always(type, pending) == Append(pending, 0)

\* if (type !== 'error') setTimeout(() => bar.classList.add('hidden'), 5000)
armed(type, pending) == IF type # "error" THEN Append(pending, 0) ELSE pending

\* showNotification(type, message) of tab-manager.js
showNotification(type, message) ==
  /\ Len(armed(type, hideTimeouts)) <= MaxHideTimeouts
  /\ notificationBar' = shownBar(type, message)
  /\ hideTimeouts' = armed(type, hideTimeouts)
  /\ op' = Op("showNotification", NoTab, null, type, message, 0, <<>>)
  /\ UNCHANGED OutsideBar

\* electronAPI.onShowNotification(data)
onShowNotification(data) ==
  /\ Len(armed(data.type, hideTimeouts)) <= MaxHideTimeouts
  /\ notificationBar' = shownBar(data.type, data.message)
  /\ hideTimeouts' = armed(data.type, hideTimeouts)
  /\ op' = Op("onShowNotification", NoTab, null, data.type, data.message, 0, <<>>)
  /\ UNCHANGED OutsideBar

\* The click listener of #notification-close
notificationClose ==
  /\ notificationBar' = [notificationBar EXCEPT !.hidden = TRUE]
  /\ op' = Op("notificationClose", NoTab, null, "", "", 0, <<>>)
  /\ UNCHANGED <<hideTimeouts, OutsideBar>>

\* A timeout of the bar comes due: bar.classList.add('hidden')
hideTimeout(i) ==
  /\ i \in 1..Len(hideTimeouts)
  /\ hideTimeouts[i] = HIDE_DELAY
  /\ hideTimeouts' = RemoveAt(hideTimeouts, i)
  /\ notificationBar' = [notificationBar EXCEPT !.hidden = TRUE]
  /\ op' = Op("hideTimeout", NoTab, null, "", "", 0, <<>>)
  /\ UNCHANGED OutsideBar

\* BannerStep ms pass; no timeout of the bar is overdue.
BannerTick ==
  /\ \A i \in 1..Len(hideTimeouts) : hideTimeouts[i] + BannerStep <= HIDE_DELAY
  /\ hideTimeouts' = [i \in 1..Len(hideTimeouts) |-> hideTimeouts[i] + BannerStep]
  /\ notificationBar' = [notificationBar EXCEPT !.age = Min(@ + BannerStep, HIDE_DELAY)]
  /\ op' = Op("bannerTick", NoTab, null, "", "", BannerStep, <<>>)
  /\ UNCHANGED OutsideBar

\* Banners of both kinds are shown by the UI process and by the host, closed
\* by the user and hidden by their timeouts, as time passes.
BannerInit == TabsInit /\ AuxInit

BannerNext ==
  \/ \E type \in BannerTypes, m \in {"m1", "m2"} : showNotification(type, m)
  \/ \E type \in BannerTypes, m \in {"m1", "m2"} :
       onShowNotification([type |-> type, message |-> m])
  \/ notificationClose
  \/ \E i \in 1..MaxHideTimeouts : hideTimeout(i)
  \/ BannerTick

BannerSpec == BannerInit /\ [][BannerNext]_vars


\* ----------------------------------------------------- the context menu
MaxRows == 3

\* renderer.js:515-518: the distance kept from an edge the menu is moved off
MARGIN == 4

\* The windows and the menu sizes of the position check.
InnerSizes == {20, 24}

MenuSizes == {3, 11}

\* The coordinates a menu is asked for in a window of size inner: at and near
\* both edges and in between.
Points(inner) == {0, 2, 4, 10, inner - 8, inner - 4, inner - 3, inner}

\* What the handlers of the menu leave alone.
OutsideMenu == <<TabVars, currentFontSize, HostVars, PureVars, sent, tabsContainer, BannerVars,
                 BoardVars, views>>

NoAction == [menu |-> "", row |-> 0]

\* An item of a menu: a separator, or a row with an action that may be
\* disabled.  The action is known by the menu it was made for and its row.
Item(owner, i, shape) ==
  [separator |-> shape = "sep", disabled |-> shape = "off",
   action |-> IF shape = "sep" THEN NoAction ELSE [menu |-> owner, row |-> i]]

\* The items of the menu of owner with the rows of shapes.
Items(owner, shapes) == [i \in 1..Len(shapes) |-> Item(owner, i, shapes[i])]

Shapes == UNION {[1..n -> {"on", "off", "sep"}] : n \in 1..MaxRows}

\* The element showContextMenu makes for an item; listener is the action
\* its click listener calls, NoAction when it has no listener.
Row(item) ==
  IF item.separator
  THEN [className |-> "context-menu-separator", disabled |-> FALSE, listener |-> NoAction]
  ELSE [className |-> "context-menu-item", disabled |-> item.disabled,
        listener |-> IF ~item.disabled /\ item.action # NoAction THEN item.action
                     ELSE NoAction]

\* The rows of an earlier menu stay.
renderRows_kept(children, items) == children \o [i \in 1..Len(items) |-> Row(items[i])]

\* menu.innerHTML = '', then one child per item
renderRows(children, items) == [i \in 1..Len(items) |-> Row(items[i])]

\* posX / posY of showContextMenu, from the requested coordinate, the
\* measured size and the size of the window
clamp(pos, size, inner) ==
  LET moved == IF pos + size > inner THEN inner - size - MARGIN ELSE pos
  IN IF moved < 0 THEN MARGIN ELSE moved

\* hide()
hide(menu) ==
  IF menu.elements > 0 THEN [menu EXCEPT !.hidden = TRUE, !.rows = <<>>] ELSE menu

\* showContextMenu(x, y, items); rect is the size the menu is measured to have
showContextMenu(x, y, items, rect) ==
  /\ menuEl' = [elements |-> IF menuEl.elements > 0 THEN menuEl.elements ELSE 1,
                hidden |-> FALSE,
                rows |-> renderRows(menuEl.rows, items),
                left |-> clamp(x, rect.width, innerSize.w),
                top |-> clamp(y, rect.height, innerSize.h)]
  /\ lastShow' = [items |-> items, x |-> x, y |-> y, width |-> rect.width, height |-> rect.height]
  /\ op' = Op("showContextMenu", NoTab, null, "", "", Len(items), <<>>)
  /\ UNCHANGED <<innerSize, OutsideMenu>>

\* A click on row i of the menu that is shown: the mousedown on it is inside
\* the menu, the click runs the listener of the row if it has one.
rowClick(i) ==
  /\ ~menuEl.hidden
  /\ i \in 1..Len(menuEl.rows)
  /\ IF menuEl.rows[i].listener # NoAction
     THEN /\ menuEl' = hide(menuEl)
          /\ op' = Op("rowClick", NoTab, menuEl.rows[i].listener.menu, "invoked", "", i,
                      <<Ev("action", menuEl.rows[i].listener.row, NoContent)>>)
     ELSE /\ menuEl' = menuEl
          /\ op' = Op("rowClick", NoTab, null, "none", "", i, <<>>)
  /\ UNCHANGED <<lastShow, innerSize, OutsideMenu>>

\* A mousedown outside the menu ("mousedown"), a keydown of Escape
\* ("keydown"), the blur of the window ("blur")
dismiss(event) ==
  /\ menuEl' = hide(menuEl)
  /\ op' = Op(event, NoTab, null, "", "", 0, <<>>)
  /\ UNCHANGED <<lastShow, innerSize, OutsideMenu>>

\* The window is resized.
resize(w, h) ==
  /\ innerSize' = [w |-> w, h |-> h]
  /\ op' = Op("resize", NoTab, null, "", "", 0, <<>>)
  /\ UNCHANGED <<menuEl, lastShow, OutsideMenu>>

\* Menus of two owners are shown, clicked and dismissed.
MenuInit == TabsInit /\ AuxInit

MenuNext ==
  \/ \E owner \in {"editor", "tab"}, shapes \in Shapes :
       showContextMenu(10, 10, Items(owner, shapes), [width |-> 6, height |-> 2 * Len(shapes)])
  \/ \E i \in 1..(2 * MaxRows) : rowClick(i)
  \/ \E event \in {"mousedown", "keydown", "blur"} : dismiss(event)

MenuSpec == MenuInit /\ [][MenuNext]_vars

\* A menu of one row is shown at every point of windows of several sizes.
PlaceInit == TabsInit /\ AuxInit

PlaceNext ==
  \/ \E x \in Points(innerSize.w), y \in Points(innerSize.h), w, h \in MenuSizes :
       showContextMenu(x, y, Items("editor", <<"on">>), [width |-> w, height |-> h])
  \/ \E w, h \in InnerSizes : resize(w, h)
  \/ \E event \in {"mousedown", "keydown", "blur"} : dismiss(event)

PlaceSpec == PlaceInit /\ [][PlaceNext]_vars


\* ------------------------------------------------ the rendered task board
MaxBoardLists == 2

MaxBoardTasks == 2

\* uid() calls of the board's handlers.
MaxBoardIds == 2

\* todo-renderer.js:102: title: 'New List'
NEW_LIST_TITLE == <<"N", "e", "w", " ", "L", "i", "s", "t">>

\* A title or a text a file brings, with and without white space around it.
StoredTexts == {<<"a">>, <<" ", "a">>, <<"a", " ">>}

\* What the user leaves in an input.
InputTexts == {<<>>, <<" ">>, <<"b">>, <<" ", "b">>, <<"a">>}

\* What the handlers of the board leave alone.
OutsideBoard == <<TabVars, currentFontSize, HostVars, todoText, todoData, CheckboxVars,
                  MarkdownVars, sent, tabsContainer, BannerVars, MenuVars, views>>

\* lists.findIndex(l => l.id === id), from 1; 0 for -1
FindId(s, id) == IF \E k \in 1..Len(s) : s[k].id = id
                 THEN CHOOSE k \in 1..Len(s) : s[k].id = id ELSE 0

\* The new task keeps the text as typed and is done.
newTask_raw(id, value) == [id |-> id, text |-> value, done |-> TRUE]

\* { id: uid(), text: addInput.value.trim(), done: false }
newTask(id, value) == [id |-> id, text |-> Trim(value), done |-> FALSE]

\* { id: uid(), title: 'New List', tasks: [] }
newList(id) == [id |-> id, title |-> NEW_LIST_TITLE, tasks |-> <<>>]

\* uid() in a handler of the board
boardUid ==
  /\ Len(issued) < MaxIssued
  /\ idCounter < MaxBoardIds + 1
  /\ idCounter' = idCounter + 1
  /\ issued' = Append(issued, idCounter)

\* The change listener of the checkbox of task t of list l
toggleTask(l, t) ==
  /\ edit = NoEdit
  /\ l \in 1..Len(boardData.lists) /\ t \in 1..Len(boardData.lists[l].tasks)
  /\ boardData' = [boardData EXCEPT !.lists[l].tasks[t].done = ~@]
  /\ seen' = <<boardData'>>
  /\ op' = Op("toggleTask", NoTab, null, "", "", 0, <<>>)
  /\ UNCHANGED <<edit, idCounter, issued, OutsideBoard>>

\* keydown Enter in the add input of list l, which holds value
addTask(l, value) ==
  /\ edit = NoEdit
  /\ l \in 1..Len(boardData.lists)
  /\ IF Trim(value) # <<>>
     THEN /\ Len(boardData.lists[l].tasks) < MaxBoardTasks
          /\ boardUid
          /\ boardData' = [boardData EXCEPT !.lists[l].tasks = Append(@, newTask(idCounter, value))]
          /\ seen' = <<boardData'>>
          /\ op' = Op("addTask", NoTab, null, "added", "", l, <<>>)
     ELSE /\ seen' = <<>>
          /\ op' = Op("addTask", NoTab, null, "blank", "", l, <<>>)
          /\ UNCHANGED <<boardData, idCounter, issued>>
  /\ UNCHANGED <<edit, OutsideBoard>>

\* The action of 'Delete Task' of the task with taskId of the list with
\* listId (the objects the menu was made for); answer is that of confirm()
deleteTask(listId, taskId, answer) ==
  LET l == FindId(boardData.lists, listId)
      idx == IF l = 0 THEN 0 ELSE FindId(boardData.lists[l].tasks, taskId)
  IN /\ edit = NoEdit
     /\ l # 0
     /\ IF answer /\ idx # 0
        THEN /\ boardData' = [boardData EXCEPT !.lists[l].tasks = RemoveAt(@, idx)]
             /\ seen' = <<boardData'>>
             /\ op' = Op("deleteTask", NoTab, null, "deleted", "", idx, <<>>)
        ELSE /\ seen' = <<>>
             /\ op' = Op("deleteTask", NoTab, null, IF answer THEN "gone" ELSE "declined", "",
                         idx, <<>>)
             /\ UNCHANGED boardData
     /\ UNCHANGED <<edit, idCounter, issued, OutsideBoard>>

\* confirmDeleteList(tile, list, data, onChange), for the list with listId
confirmDeleteList(listId, answer) ==
  LET idx == FindId(boardData.lists, listId)
  IN /\ edit = NoEdit
     /\ IF answer /\ idx # 0
        THEN /\ boardData' = [boardData EXCEPT !.lists = RemoveAt(@, idx)]
             /\ seen' = <<boardData'>>
             /\ op' = Op("confirmDeleteList", NoTab, null, "deleted", "", idx, <<>>)
        ELSE /\ seen' = <<>>
             /\ op' = Op("confirmDeleteList", NoTab, null,
                         IF answer THEN "gone" ELSE "declined", "", idx, <<>>)
             /\ UNCHANGED boardData
     /\ UNCHANGED <<edit, idCounter, issued, OutsideBoard>>

\* The click listener of the 'New List' card: the list is pushed, the board
\* rendered again and the title of the last tile edited.
newListClick ==
  /\ edit = NoEdit
  /\ Len(boardData.lists) < MaxBoardLists
  /\ boardUid
  /\ boardData' = [boardData EXCEPT !.lists = Append(@, newList(idCounter))]
  /\ seen' = <<boardData'>>
  /\ edit' = [kind |-> "title", list |-> idCounter, task |-> 0, value |-> NEW_LIST_TITLE]
  /\ op' = Op("newList", NoTab, null, "", "", 0, <<>>)
  /\ UNCHANGED OutsideBoard

\* startEditTask(textSpan, task, onChange), from a double click or the menu
startEditTask(l, t) ==
  /\ edit = NoEdit
  /\ l \in 1..Len(boardData.lists) /\ t \in 1..Len(boardData.lists[l].tasks)
  /\ edit' = [kind |-> "task", list |-> boardData.lists[l].id, task |-> boardData.lists[l].tasks[t].id,
              value |-> boardData.lists[l].tasks[t].text]
  /\ seen' = <<>>
  /\ op' = Op("startEditTask", NoTab, null, "", "", 0, <<>>)
  /\ UNCHANGED <<boardData, idCounter, issued, OutsideBoard>>

\* startEditTitleInline(titleSpan, list, data, onChange)
startEditTitleInline(l) ==
  /\ edit = NoEdit
  /\ l \in 1..Len(boardData.lists)
  /\ edit' = [kind |-> "title", list |-> boardData.lists[l].id, task |-> 0,
              value |-> boardData.lists[l].title]
  /\ seen' = <<>>
  /\ op' = Op("startEditTitleInline", NoTab, null, "", "", 0, <<>>)
  /\ UNCHANGED <<boardData, idCounter, issued, OutsideBoard>>

\* The user changes the value of the edit input.
typeInput(value) ==
  /\ edit # NoEdit
  /\ edit' = [edit EXCEPT !.value = value]
  /\ seen' = <<>>
  /\ op' = Op("typeInput", NoTab, null, "", "", 0, <<>>)
  /\ UNCHANGED <<boardData, idCounter, issued, OutsideBoard>>

\* The stored title or text the edit input is for.
Stored(b, e) ==
  LET l == FindId(b.lists, e.list)
  IN IF e.kind = "title" THEN b.lists[l].title
     ELSE b.lists[l].tasks[FindId(b.lists[l].tasks, e.task)].text

\* commit() of the edit input: the value that is stored afterwards
committed(value, stored) ==
  IF Trim(value) # <<>> /\ Trim(value) # stored THEN Trim(value) ELSE stored

\* The blur of the edit input with the value it has then: commit()
commit(name, value) ==
  LET l == FindId(boardData.lists, edit.list)
      stored == Stored(boardData, edit)
  IN /\ edit # NoEdit
     /\ boardData' = IF edit.kind = "title"
                 THEN [boardData EXCEPT !.lists[l].title = committed(value, stored)]
                 ELSE [boardData EXCEPT !.lists[l].tasks[FindId(boardData.lists[l].tasks, edit.task)].text =
                                       committed(value, stored)]
     /\ seen' = IF committed(value, stored) # stored THEN <<boardData'>> ELSE <<>>
     /\ edit' = NoEdit
     /\ op' = Op(name, NoTab, null, edit.kind, "", 0, <<>>)
     /\ UNCHANGED <<idCounter, issued, OutsideBoard>>

\* The input loses the focus, or Enter is pressed in it: input.blur()
editBlur == commit("editBlur", edit.value)

editEnter == commit("editEnter", edit.value)

\* Escape in the input: input.value = task.text (list.title), input.blur()
editEscape == commit("editEscape", Stored(boardData, edit))

\* The boards a file brings: one list with one task.
FileBoards ==
  {[lists |-> <<[id |-> 0 - 1, title |-> title,
                 tasks |-> <<[id |-> 0 - 2, text |-> text, done |-> FALSE]>>]>>] :
     title \in StoredTexts, text \in StoredTexts}

\* A board of a file is rendered and used: tasks are toggled, added, edited
\* and deleted, lists are added, renamed and deleted.
BoardInit ==
  /\ TabsInit /\ RestInit /\ WidgetsInit /\ sent = NotRecorded /\ views = NotRecorded
  /\ boardData \in FileBoards

BoardNext ==
  \/ \E l \in 1..MaxBoardLists, t \in 1..MaxBoardTasks : toggleTask(l, t)
  \/ \E l \in 1..MaxBoardLists, value \in InputTexts : addTask(l, value)
  \/ \E listId, taskId \in (0 - 2)..MaxBoardIds, answer \in BOOLEAN :
       deleteTask(listId, taskId, answer)
  \/ \E listId \in (0 - 2)..MaxBoardIds, answer \in BOOLEAN : confirmDeleteList(listId, answer)
  \/ newListClick
  \/ \E l \in 1..MaxBoardLists, t \in 1..MaxBoardTasks : startEditTask(l, t)
  \/ \E l \in 1..MaxBoardLists : startEditTitleInline(l)
  \/ \E value \in InputTexts : typeInput(value)
  \/ editBlur
  \/ editEnter
  \/ editEscape

BoardSpec == BoardInit /\ [][BoardNext]_vars


\* ----------------------------------------- editor history and the preview
MaxUndo == 2

\* The editor of a new tab has no history, its preview wrapper is empty.
NoView == [done |-> <<>>, undone |-> <<>>, preview |-> <<>>]

\* What the handlers of this section leave alone outside the tab manager.
OutsideViews == <<currentFontSize, HostVars, PureVars, sent, tabsContainer, BannerVars,
                  MenuVars, BoardVars>>

\* updatePreviewContent(tab): the preview wrapper renders the content of
\* the editor
updatePreviewContent(view, t) == [view EXCEPT !.preview = <<getEditorContent(t.doc)>>]

\* The user types in the editor of the active tab, which is shown only
\* while the tab is not read-only; the history of CodeMirror notes the
\* document before the change.
typeInEditor(id, newDoc) ==
  /\ id \in Range(tabs)
  /\ ~tab[id].isTodo /\ ~tab[id].readOnly
  /\ Len(views[id].done) < MaxUndo
  /\ EditCall(id, newDoc)
  /\ views' = [views EXCEPT ![id].done = Append(@, tab[id].doc), ![id].undone = <<>>]
  /\ UNCHANGED OutsideViews

\* toggleReadOnly(tabId), with the preview it renders when it turns
\* read-only on
toggleReadOnlyView(tabId) ==
  /\ toggleReadOnlyCall(tabId)
  /\ views' = IF tab'[tabId].readOnly
              THEN [views EXCEPT ![tabId] = updatePreviewContent(@, tab[tabId])]
              ELSE views
  /\ UNCHANGED OutsideViews

\* onEditorCommand: the commands that reach the history of the editor of
\* tab t (a task board is skipped; find and replace open the search panel)
reaches(t, command) == ~t.isTodo /\ command \in {"undo", "redo"}

\* electronAPI.onEditorCommand(command): undo(view) and redo(view) of
\* CodeMirror change the document, which runs the change callback of the tab.
onEditorCommand(command) ==
  LET id == activeTabId
      from == IF command = "undo" THEN views[id].done ELSE views[id].undone
  IN IF id # NoTab /\ reaches(tab[id], command) /\ from # <<>>
     THEN /\ EditCall(id, from[Len(from)])
          /\ views' = IF command = "undo"
                      THEN [views EXCEPT ![id].done = SubSeq(@, 1, Len(@) - 1),
                                         ![id].undone = Append(@, tab[id].doc)]
                      ELSE [views EXCEPT ![id].undone = SubSeq(@, 1, Len(@) - 1),
                                         ![id].done = Append(@, tab[id].doc)]
          /\ UNCHANGED OutsideViews
     ELSE /\ op' = Op("editorCommand", id, null, "none", command, 0, <<>>)
          /\ UNCHANGED <<TabVars, Aux>>

\* Tabs are opened, typed in, made read-only and back, and the commands of
\* the Edit menu arrive.
ViewInit ==
  /\ TabsInit /\ RestInit /\ WidgetsInit /\ boardData = EmptyBoard /\ sent = NotRecorded
  /\ views = [i \in TabIds |-> NoView]

ViewNext ==
  \/ \E p \in Paths \cup {null} : createTab(p, Text(0))
  \/ \E id \in TabIds : activateTab(id)
  \/ \E id \in TabIds, d \in Texts : typeInEditor(id, d)
  \/ \E id \in TabIds : toggleReadOnlyView(id)
  \/ \E command \in {"undo", "redo", "find", "replace"} : onEditorCommand(command)

ViewSpec == ViewInit /\ [][ViewNext]_vars


\* ================================================================ claims
OpenTabs == Range(tabs)

Teardown(id) == <<Ev("destroy", id, NoContent), Ev("splice", id, NoContent)>>

\* C1: closeTab of a tab that is modified and has a file path sends exactly
\* one save request, with the content the tab has at the call, before the
\* editing surface is destroyed and the tab leaves the tab sequence; closeTab
\* of a tab that is unmodified or untitled sends none.
C1_CloseSavesBeforeTeardown ==
  [][op'.name = "closeTab" =>
       LET id == op'.id
           t == tab[id]
       IN IF t.modified /\ t.filePath # null
          THEN /\ op'.events = <<Ev("saveFile", id, LiveContent(t))>> \o Teardown(id)
               /\ Len(inflight') = Len(inflight) + 1
               /\ inflight'[Len(inflight')].id = id
               /\ inflight'[Len(inflight')].content = LiveContent(t)
               /\ id \in Range(tabs) /\ id \notin Range(tabs')
          ELSE /\ op'.events = Teardown(id)
               /\ inflight' = inflight]_vars

C1_Witness ==
  /\ op.name = "closeTab"
  /\ Len(op.events) = 3
  /\ op.events[1].e = "saveFile"

\* C2: no two open tabs have the same file path.
C2_NoTwoTabsSharePath ==
  \A i, j \in 1..Len(tabs) :
    (i # j /\ tab[tabs[i]].filePath # null) => tab[tabs[i]].filePath # tab[tabs[j]].filePath

\* C3: createTab / createTodoTab with a path that an open tab already has
\* creates no tab and hands out no identifier: the tab sequence and the tab
\* objects are unchanged but for the surfaces the activation shows and
\* hides, and the call activates and returns an open tab that has this
\* path, whatever its kind.
C3_CreateDedups ==
  [][(/\ op'.name \in {"createTab", "createTodoTab"}
      /\ op'.path # null
      /\ \E i \in 1..Len(tabs) : tab[tabs[i]].filePath = op'.path)
     => /\ tabs' = tabs
        /\ tabIdCounter' = tabIdCounter
        /\ \A id \in DOMAIN tab : [tab'[id] EXCEPT !.shown = {}] = [tab[id] EXCEPT !.shown = {}]
        /\ op'.id \in Range(tabs)
        /\ tab[op'.id].filePath = op'.path
        /\ activeTabId' = op'.id]_vars

C3_Witness ==
  /\ op.name = "createTodoTab"
  /\ op.res = "existing"
  /\ op.id \in OpenTabs
  /\ ~tab[op.id].isTodo
  /\ Len(tabs) = 2
  /\ activeTabId = op.id

\* C4: an edit of an ordinary tab sets modified to TRUE exactly when the
\* new content differs from the saved baseline, so an edit back to the
\* baseline clears it, however many edits came before.
C4_DirtyByContent ==
  [][(op'.name = "edit" /\ ~tab[op'.id].isTodo)
     => /\ tab'[op'.id].content = tab[op'.id].content
        /\ tab'[op'.id].doc # tab[op'.id].doc
        /\ tab'[op'.id].modified = (tab'[op'.id].doc # tab[op'.id].content)]_vars

C4_Witness ==
  /\ op.name = "edit"
  /\ op.id \in OpenTabs
  /\ ~tab[op.id].isTodo
  /\ tab[op.id].doc = tab[op.id].content
  /\ ~tab[op.id].modified

\* C5: for every open tab, modified is TRUE exactly when the content the
\* tab would write differs from its saved baseline.
C5_ModifiedIffDiffers ==
  \A id \in OpenTabs : tab[id].modified = (LiveContent(tab[id]) # tab[id].content)

\* C6: every trigger() discards the debounce timer armed before and arms a
\* new one, so a debounce timer fires only 2000 ms after the last trigger(),
\* and once: at most one debounce timer is armed, it was armed by the last
\* trigger(), and none is left when it has fired.
DebounceTimers == {i \in 1..Len(timers[1]) : timers[1][i].kind = "debounce"}

C6_DebounceFiresOnceAfterLastTrigger ==
  /\ Cardinality(DebounceTimers) <= 1
  /\ \A i \in DebounceTimers : timers[1][i].age = sinceTrigger /\ timers[1][i].delay = 2000
  /\ (op.name = "timerFire" /\ op.via = "debounce")
       => /\ sinceTrigger = 2000
          /\ op.n = 2000
          /\ DebounceTimers = {}
          /\ (tab[1].filePath # null => Len(op.events) = 1 /\ op.events[1].e = "saveFile")

C6_Witness ==
  /\ op.name = "timerFire"
  /\ op.via = "debounce"
  /\ gap \in 1..1999
  /\ Len(op.events) = 1

\* C7: a failed attempt (success false, or a fault) calls the failure
\* callback once and arms one retry timer of 5000 ms, which fires 5000 ms
\* later; a successful attempt, a retry included, calls the success callback
\* once and arms no timer; this holds for every attempt, however many failed
\* before.
SameButRef(a, b) ==
  a.kind = b.kind /\ a.delay = b.delay /\ a.age = b.age

C7_FailureArmsOneRetry ==
  [][/\ op'.name = "performSaveDone" =>
          IF op'.res = "ok"
          THEN /\ op'.events = <<Ev("onSaveSuccess", op'.id, NoContent)>>
               /\ timers' = timers
          ELSE /\ op'.events = <<Ev("onSaveError", op'.id, NoContent)>>
               /\ Len(timers'[op'.id]) = Len(timers[op'.id]) + 1
               /\ \A i \in 1..Len(timers[op'.id]) :
                    SameButRef(timers'[op'.id][i], timers[op'.id][i])
               /\ timers'[op'.id][Len(timers'[op'.id])] =
                    [kind |-> "retry", ref |-> TRUE, delay |-> 5000, age |-> 0]
     /\ (op'.name = "timerFire" /\ op'.via = "retry") => op'.n = 5000]_vars

C7_Witness ==
  /\ op.name = "performSaveDone"
  /\ op.res = "ok"
  /\ op.via = "retry"

\* C8: the controller of an untitled document sends no save request, calls
\* no callback and arms no retry timer, whether saveNow() is called, a
\* debounce timer fires or the tab is closed.
ControllerEvents == {"saveFile", "onSaveSuccess", "onSaveError"}

C8_UntitledNeverSaves ==
  /\ (1 \in OpenTabs /\ tab[1].filePath = null) =>
       /\ inflight = <<>>
       /\ \A i \in 1..Len(timers[1]) : timers[1][i].kind # "retry"
       /\ op.events = <<>>
       /\ op.name # "performSaveDone"
  /\ (op.name = "closeTab" /\ op.path = null) =>
       /\ inflight = <<>>
       /\ timers[1] = <<>>
       /\ \A i \in 1..Len(op.events) : op.events[i].e \notin ControllerEvents

C8_Witness ==
  /\ 1 \in OpenTabs
  /\ tab[1].filePath = null
  /\ op.name = "timerFire"
  /\ op.via = "debounce"

\* C9: at most one timer of a controller is armed at a time.
C9_AtMostOneTimer == Len(timers[1]) <= 1

\* C10: after cancel() or closeTab, and until trigger() or saveNow() is
\* called again, no timer of the controller is armed.
C10_NoTimerAfterCancel ==
  \A id \in TabIds : quiet[id] => timers[id] = <<>>

\* C14: the font size starts at 15 and stays within 8..32; zoom "in" changes
\* size s to min(s+1, 32), "out" to max(s-1, 8), "reset" to 15, and
\* restore-font-size(v) sets the size to v when v is a number within 8..32
\* and changes nothing otherwise.
C14_FontSizeClamped ==
  /\ currentFontSize = 15
  /\ [](currentFontSize \in 8..32)
  /\ [][/\ (op'.name = "zoom" /\ op'.via = "in") =>
             currentFontSize' = IF currentFontSize + 1 < 32 THEN currentFontSize + 1 ELSE 32
        /\ (op'.name = "zoom" /\ op'.via = "out") =>
             currentFontSize' = IF currentFontSize - 1 > 8 THEN currentFontSize - 1 ELSE 8
        /\ (op'.name = "zoom" /\ op'.via = "reset") => currentFontSize' = 15
        /\ op'.name = "restoreFontSize" =>
             currentFontSize' = IF op'.via = "number" /\ op'.n \in 8..32
                                THEN op'.n ELSE currentFontSize]_vars

C14_Witness ==
  /\ op.name = "zoom"
  /\ op.via = "in"
  /\ op.n = 32
  /\ currentFontSize = 32


\* C11: getSessionData returns the paths of the tabs that have a path, in
\* tab order, as files; the paths of the read-only ones among them as
\* readOnlyFiles; the current font size; and as activeIndex the position of
\* the active tab within files, 0 when it has none.
WithPath == {i \in 1..Len(tabs) : tab[tabs[i]].filePath # null}

C11_SessionData ==
  LET s == getSessionData
      k == IndexOf(tabs, activeTabId)
  IN /\ Len(s.files) = Cardinality(WithPath)
     /\ \A i \in WithPath :
          s.files[Cardinality({j \in WithPath : j <= i})] = tab[tabs[i]].filePath
     /\ Range(s.readOnlyFiles) = {tab[tabs[i]].filePath : i \in {j \in WithPath : tab[tabs[j]].readOnly}}
     /\ s.fontSize = currentFontSize
     /\ s.activeIndex = IF k \in WithPath THEN Cardinality({j \in WithPath : j < k}) ELSE 0

\* C12: when the session was saved at the close request and every saved file
\* is read at the next launch, then after the restore the open tabs are the
\* files that were open, in the same order, the active tab is the file that
\* was active, the read-only tabs are the same files and the font size is
\* the one at the close request.
Restored ==
  /\ window = "open"
  /\ toUI = <<>>
  /\ atClose.run > 0
  /\ op.name \in {"launch", "restoreFontSize", "restoreReadOnly"}

C12_SessionRoundTrip ==
  (Restored /\ atClose.saved /\ atClose.complete) =>
    /\ PathsOf(tabs, tab, DOMAIN tab) = atClose.files
    /\ atClose.active # null =>
         activeTabId # NoTab /\ tab[activeTabId].filePath = atClose.active
    /\ {tab[id].filePath : id \in {j \in Range(tabs) : tab[j].readOnly}} = atClose.readOnlyFiles
    /\ currentFontSize = atClose.fontSize

\* C15: reorderTab(moved, target, before) with moved # target keeps the set
\* of tabs, places the moved tab immediately before (before) or immediately
\* after (not before) the target, keeps the relative order of the other
\* tabs, and leaves the active tab identifier.
C15_ReorderPlacesNextToTarget ==
  [][(op'.name = "reorderTab" /\ op'.id # op'.n) =>
       LET i == IndexOf(tabs', op'.id)
           j == IndexOf(tabs', op'.n)
       IN /\ Len(tabs') = Len(tabs)
          /\ Range(tabs') = Range(tabs)
          /\ i # 0 /\ j # 0
          /\ IF op'.res = "before" THEN i + 1 = j ELSE i = j + 1
          /\ RemoveAt(tabs', i) = RemoveAt(tabs, IndexOf(tabs, op'.id))
          /\ activeTabId' = activeTabId]_vars

C15_Witness ==
  /\ op.name = "reorderTab"
  /\ op.id = 1 /\ op.n = 3 /\ op.res = "after"
  /\ tabs = <<2, 3, 1>>

C13_RecentBoundedMostRecentFirst ==
  /\ recent = <<>>
  /\ [](/\ Len(recent) <= 10
        /\ \A i, j \in 1..Len(recent) : i # j => recent[i] # recent[j])
  /\ [][(op'.name = "menu" /\ op'.res = "ok") =>
          LET p == op'.n
              others == SelectSeq(recent, LAMBDA f : f # p)
          IN /\ op'.via = "ok" =>
                  /\ recent'[1] = p
                  /\ Tail(recent') = SubSeq(others, 1, Min(Len(others), 9))
             /\ op'.via = "writeFail" => recent' = recent
             /\ op'.via = "readFail" => recent' = <<p>>
             /\ p \in Range(recent) => Len(recent') <= Len(recent)]_vars

C13_Witness ==
  /\ op.name = "menu" /\ op.res = "ok" /\ op.via = "ok"
  /\ Len(recent) = 10
  /\ recent[1] = 11
  /\ recent[10] = 2

\* C19: every file-open attempt whose read fails sends a show-notification
\* message of type error for the file, whatever the entry point.
C19_FailedOpenNotifies ==
  (op.name \in {"menu", "recent", "os", "argv", "second"} /\ op.res = "fail") =>
    op.events = <<HostEv("show-notification:error", op.n)>>


C17_ClickReplacesBracketToken ==
  [][op'.name = "click" =>
       LET match == TaskMatch(docLine)
           len == IF match.checkChar = "" THEN 2 ELSE 3
           opposite == IF match.checkChar \in {"x", "X"}
                       THEN <<"[", " ", "]">> ELSE <<"[", "x", "]">>
       IN /\ match.ok
          /\ docLine' = SubSeq(docLine, 1, match.prefix) \o opposite
                          \o SubSeq(docLine, match.prefix + len + 1, Len(docLine))]_vars


\* C18: a table is made of a pipe-containing line only when the line after
\* it is a valid separator row, and every pipe-containing line of the text
\* is part of some block of the output.
C18_PipeLineTableOrParagraph ==
  op.name = "renderMarkdown" =>
    LET lines == SplitOn(mdText, "\n")
        blocks == {mdBlocks[k] : k \in 1..Len(mdBlocks)}
        sepCells(i) == parseCells(Trim(lines[i]))
    IN /\ \A b \in blocks :
            b.kind = "table" =>
              /\ LooksLikeSeparator(lines[b.from + 1])
              /\ \A k \in 1..Len(sepCells(b.from + 1)) : CellOk(sepCells(b.from + 1)[k])
       /\ \A i \in 1..Len(lines) :
            Includes(lines[i], "|") => \E b \in blocks : b.from <= i /\ i <= b.to


\* C21: no open tab is both a task board and read-only; toggleReadOnly,
\* toggleActiveReadOnly and setReadOnlyByPath applied to a task-board tab
\* change nothing; and isTodo of a tab does not change while it is open.
ReadOnlyCalls == {"toggleReadOnly", "toggleActiveReadOnly", "setReadOnlyByPath"}

C21_TaskBoardNeverReadOnly ==
  /\ [](\A id \in Range(tabs) : ~(tab[id].isTodo /\ tab[id].readOnly))
  /\ [][/\ \A id \in Range(tabs) \cap Range(tabs') : tab'[id].isTodo = tab[id].isTodo
        /\ (op'.name \in ReadOnlyCalls /\ op'.id # NoTab /\ tab[op'.id].isTodo) =>
             (tab' = tab /\ tabs' = tabs /\ activeTabId' = activeTabId)]_vars

C21_Witness ==
  /\ op.name = "setReadOnlyByPath"
  /\ op.id \in Range(tabs)
  /\ tab[op.id].isTodo
  /\ \E j \in Range(tabs) : tab[j].readOnly


\* C27: while a tab is open, the surfaces marked visible over all open tabs
\* are exactly one, that of the active tab: its board if it is a task
\* board, its preview if it is read-only, else its editor.
C27_OneSurfaceVisible ==
  \A id \in Range(tabs) :
    tab[id].shown = IF id = activeTabId THEN {Surface(tab[id])} ELSE {}


\* C28: the active tab identifier is absent exactly when no tab is open and
\* otherwise names a tab of the tab sequence; the identifiers of the tab
\* sequence are pairwise distinct, none is above the counter, and an
\* identifier that enters the sequence is above every identifier handed out
\* before, so that the identifier of a closed tab never comes back.
C28_ActiveAndIdentifiers ==
  /\ [](/\ (activeTabId = NoTab) <=> (tabs = <<>>)
        /\ activeTabId # NoTab => activeTabId \in Range(tabs)
        /\ \A i, j \in 1..Len(tabs) : tabs[i] = tabs[j] => i = j
        /\ \A id \in Range(tabs) : id <= tabIdCounter)
  /\ [][/\ tabIdCounter' >= tabIdCounter
        /\ \A id \in Range(tabs') \ Range(tabs) : id > tabIdCounter]_vars

\* A tab is created after an earlier tab was closed, while another is open.
C28_Witness ==
  /\ op.name \in {"createTab", "createTodoTab"}
  /\ op.res = "new"
  /\ op.id = tabIdCounter
  /\ \E closed \in 1..tabIdCounter : closed \notin Range(tabs)
  /\ Len(tabs) >= 2
  /\ activeTabId = op.id


\* C29: closeTab(id) of an open tab leaves the tab sequence without id, the
\* others in their order; if id was active and tabs remain, the tab now at
\* the index id had (the last tab if id was last) is active; if id was not
\* active the active tab is unchanged; if no tab remains the active
\* identifier is cleared and the welcome screen is shown.  closeTab of an
\* id that no open tab has changes nothing of the tab manager.
C29_CloseTabSemantics ==
  [][op'.name = "closeTab" =>
       LET id == op'.id
           index == IndexOf(tabs, id)
           rest == SelectSeq(tabs, LAMBDA x : x # id)
       IN IF index = 0
          THEN /\ op'.res = "unknown"
               /\ op'.events = <<>>
               /\ UNCHANGED TabVars
          ELSE /\ tabs' = rest
               /\ Len(rest) = Len(tabs) - 1
               /\ (op'.via = "welcomeShown") <=> (rest = <<>>)
               /\ IF rest = <<>> THEN activeTabId' = NoTab
                  ELSE IF activeTabId # id THEN activeTabId' = activeTabId
                  ELSE IF index = Len(tabs) THEN activeTabId' = tabs[index - 1]
                  ELSE activeTabId' = tabs[index + 1]]_vars

\* closeTab has closed a tab of three: two remain and one of them is active.
C29_Witness ==
  /\ op.name = "closeTab"
  /\ op.res # "unknown"
  /\ op.via = "welcomeHidden"
  /\ Len(tabs) = 2
  /\ activeTabId \in Range(tabs)
  /\ op.id \notin Range(tabs)


\* C30: a batch close selects its tabs in the state it is called in:
\* closeOtherTabs(keep) leaves exactly keep, which is active afterwards;
\* closeTabsToRight(id) leaves the tabs up to and including id in their
\* order, the active tab unchanged if it is among them and id otherwise;
\* closeAllTabs leaves no tab and no active identifier.  Every closed tab
\* has the timers of its controller canceled, and a save request with its
\* content is sent for each closed tab that is modified and has a path, in
\* the order of the tabs; the tabs that stay keep their timers.
C30_BatchCloses ==
  [][op'.name \in {"closeOtherTabs", "closeTabsToRight", "closeAllTabs"} =>
       LET id == op'.id
           kept == IF op'.name = "closeOtherTabs" THEN SelectSeq(tabs, LAMBDA x : x = id)
                   ELSE IF op'.name = "closeTabsToRight" THEN SubSeq(tabs, 1, IndexOf(tabs, id))
                   ELSE <<>>
           closed == SelectSeq(tabs, LAMBDA x : x \notin Range(kept))
           saving == SelectSeq(closed, LAMBDA x : tab[x].modified /\ tab[x].filePath # null)
       IN /\ tabs' = kept
          /\ op'.n = Len(closed)
          /\ activeTabId' = IF op'.name = "closeOtherTabs" THEN id
                            ELSE IF op'.name = "closeAllTabs" THEN NoTab
                            ELSE IF activeTabId \in Range(kept) THEN activeTabId ELSE id
          /\ \A x \in Range(closed) : \A k \in 1..Len(timers'[x]) : ~timers'[x][k].ref
          /\ \A x \in Range(kept) : timers'[x] = timers[x]
          /\ Len(inflight') = Len(inflight) + Len(saving)
          /\ SubSeq(inflight', 1, Len(inflight)) = inflight
          /\ \A k \in 1..Len(saving) :
               LET r == inflight'[Len(inflight) + k]
               IN /\ r.id = saving[k]
                  /\ r.filePath = tab[saving[k]].filePath
                  /\ r.content = LiveContent(tab[saving[k]])]_vars

\* closeTabsToRight has closed two tabs and has sent a save for a modified
\* one of them; the tab it was called on is the one left, and is active.
C30_Witness ==
  /\ op.name = "closeTabsToRight"
  /\ op.n = 2
  /\ Len(tabs) = 1
  /\ activeTabId = op.id
  /\ \E k \in 1..Len(op.events) : op.events[k].e = "saveFile"


\* C24: when closeTab closes a tab that has a file path, the last save
\* request sent for the tab, the one closeTab sends included, carries the
\* content the tab has at the call; if none was ever sent, the tab has the
\* content it was opened with.
C24_CloseKeepsEdits ==
  [][(op'.name = "closeTab" /\ tab[op'.id].filePath # null) =>
       LET t == tab[op'.id]
       IN IF sent'[op'.id] = <<>> THEN LiveContent(t) = t.content
          ELSE sent'[op'.id] = <<LiveContent(t)>>]_vars

\* C25: when a request of the auto-save controller is answered with
\* success, the saved baseline of its tab becomes the content that request
\* carried.
C25_BaselineIsWhatWasWritten ==
  [][(op'.name = "performSaveDone" /\ op'.res = "ok" /\ op'.id \in Range(tabs)) =>
       \E i \in 1..Len(inflight) :
         /\ inflight' = RemoveAt(inflight, i)
         /\ inflight[i].id = op'.id
         /\ tab'[op'.id].content = inflight[i].content]_vars

\* C26: for each tab, at most one save request is unanswered at a time.
C26_OneRequestInFlight ==
  \A id \in DOMAIN tab :
    Cardinality({k \in 1..Len(inflight) : inflight[k].id = id}) <= 1


C23_RenderTerminates ==
  \A k \in 1..Len(mdBlocks) : mdBlocks[k].kind # "hang"


\* C38: with n >= 2 open tabs and the active tab at index i (from 0),
\* nextTab activates the tab at index (i+1) mod n and prevTab the tab at
\* index (i-1) mod n, and neither changes the tab sequence; with n <= 1
\* both change nothing.  In every state, prevTab after nextTab and n
\* nextTab calls in a row lead back to the active tab.
RECURSIVE NextTimes(_, _, _)
NextTimes(index, length, k) ==
  IF k = 0 THEN index ELSE NextTimes(nextIndex(index, length), length, k - 1)

C38_NextPrevWrapAround ==
  /\ [](Len(tabs) >= 2 =>
          LET i == IndexOf(tabs, activeTabId) - 1
              n == Len(tabs)
          IN /\ prevIndex(nextIndex(i, n), n) = i
             /\ NextTimes(i, n, n) = i)
  /\ [][op'.name \in {"nextTab", "prevTab"} =>
          LET i == IndexOf(tabs, activeTabId) - 1
              n == Len(tabs)
              j == IF op'.name = "nextTab"
                   THEN (IF i + 1 = n THEN 0 ELSE i + 1)
                   ELSE (IF i = 0 THEN n - 1 ELSE i - 1)
          IN /\ tabs' = tabs
             /\ IF n <= 1
                THEN UNCHANGED TabVars
                ELSE /\ activeTabId' = tabs[j + 1]
                     /\ tab'[activeTabId'].shown # {}]_vars

\* nextTab was called with the last of three tabs active: the first is
\* active now.
C38_Witness ==
  /\ op.name = "nextTab"
  /\ op.res = ""
  /\ Len(tabs) = 3
  /\ activeTabId = tabs[1]
  /\ tab[tabs[3]].shown = {}


\* C31: the strip entries are the tabs of the tab sequence, in the order of
\* the tab sequence, after every createTab, createTodoTab, closeTab, batch
\* close and reorderTab (every moved/target pair a drop can give, before or
\* after).
C31_StripShowsTabSequence == tabsContainer = tabs

\* The third of three tabs was dropped before the second: its strip entry
\* was put before that of the second.
C31_Witness ==
  /\ op.name = "reorderTab"
  /\ op.id = 3 /\ op.n = 2 /\ op.res = "before"
  /\ tabsContainer = <<1, 3, 2>>


\* C32: saveActiveTabAs asks the host to write the content the active tab
\* has at the call.  A canceled dialog changes no tab and shows no banner;
\* a success with path p gives the tab the call started with the path p, the
\* title of p, the content that was sent as baseline and modified = FALSE,
\* with no banner; a failure shows the banner and changes no tab.  No other
\* tab, the tab sequence and the active tab are never changed.
C32_SaveAsOutcome ==
  /\ [][op'.name = "saveActiveTabAs" =>
          /\ inflight'[Len(inflight')].kind = "saveAs"
          /\ inflight'[Len(inflight')].id = activeTabId
          /\ inflight'[Len(inflight')].content = LiveContent(tab[activeTabId])
          /\ tab' = tab /\ tabs' = tabs /\ activeTabId' = activeTabId]_vars
  /\ [][op'.name = "saveActiveTabAsDone" =>
          \E k \in 1..Len(inflight) :
             LET r == inflight[k]
                 banner == \E e \in 1..Len(op'.events) : op'.events[e].e = "showNotification"
             IN /\ r.kind = "saveAs" /\ r.id = op'.id
                /\ inflight' = RemoveAt(inflight, k)
                /\ tabs' = tabs /\ activeTabId' = activeTabId
                /\ \A id \in Range(tabs) \ {r.id} : tab'[id] = tab[id]
                /\ op'.res \in {"canceled", "ok", "fail"}
                /\ banner <=> op'.res = "fail"
                /\ r.id \in Range(tabs) =>
                     tab'[r.id] = IF op'.res = "ok"
                                  THEN [tab[r.id] EXCEPT !.filePath = op'.path,
                                                         !.title = op'.path,
                                                         !.content = r.content,
                                                         !.modified = FALSE]
                                  ELSE tab[r.id]]_vars

\* A save-as of a modified untitled tab succeeded after another tab had
\* been activated: the tab has the path and is not modified.
C32_Witness ==
  /\ op.name = "saveActiveTabAsDone"
  /\ op.res = "ok"
  /\ op.id \in Range(tabs)
  /\ op.id # activeTabId
  /\ tab[op.id].filePath = op.path
  /\ tab[op.id].title = op.path
  /\ ~tab[op.id].modified


C34_ContextMenu ==
  /\ [](/\ menuEl.elements <= 1
        /\ menuEl.hidden => menuEl.rows = <<>>
        /\ ~menuEl.hidden => Len(menuEl.rows) = Len(lastShow.items))
  /\ [][op'.name = "showContextMenu" =>
          /\ ~menuEl'.hidden
          /\ Len(menuEl'.rows) = op'.n
          /\ op'.events = <<>>]_vars
  /\ [][op'.name = "rowClick" =>
          /\ ~menuEl.hidden
          /\ op'.n \in 1..Len(lastShow.items)
          /\ LET item == lastShow.items[op'.n]
             IN IF ~item.separator /\ ~item.disabled
                THEN /\ menuEl'.hidden
                     /\ op'.path = item.action.menu
                     /\ Len(op'.events) = 1
                     /\ op'.events[1].e = "action"
                     /\ op'.events[1].id = item.action.row
                ELSE /\ op'.events = <<>>
                     /\ menuEl' = menuEl]_vars
  /\ [][op'.name \in {"mousedown", "keydown", "blur"} =>
          /\ menuEl'.hidden
          /\ menuEl'.rows = <<>>
          /\ op'.events = <<>>]_vars

\* The menu of a tab replaced the menu of the editor and its second row,
\* the only enabled one, was clicked: the menu is hidden.
C34_Witness ==
  /\ op.name = "rowClick"
  /\ op.res = "invoked"
  /\ op.path = "tab"
  /\ op.n = 2
  /\ Len(lastShow.items) = 3
  /\ lastShow.items[1].disabled
  /\ lastShow.items[3].separator
  /\ menuEl.hidden

\* C35: a menu asked for at a point of the window, smaller than the window
\* less 8 in each dimension, is placed with its rectangle inside the window
\* and at least MARGIN from each of the four edges.
C35_MenuInsideWithMargin ==
  [][(/\ op'.name = "showContextMenu"
      /\ lastShow'.width < innerSize.w - 8
      /\ lastShow'.height < innerSize.h - 8)
       => /\ menuEl'.left >= MARGIN
          /\ menuEl'.top >= MARGIN
          /\ menuEl'.left + lastShow'.width <= innerSize.w - MARGIN
          /\ menuEl'.top + lastShow'.height <= innerSize.h - MARGIN]_vars


\* C36: a handler of the board that changes the document calls onChange
\* once, with the changed document, and a handler that does not change it
\* calls nothing.  A toggle flips one completion; an added task has the
\* trimmed, non-empty text of the input and completion FALSE and is the last
\* of its list; a new list is the last list, titled 'New List', without
\* tasks; a confirmed deletion removes the task or the list; Enter on a
\* blank add input and a declined confirmation change nothing.
C36_MutationNotifiesOnce ==
  [][op'.name \in {"toggleTask", "addTask", "deleteTask", "confirmDeleteList", "newList",
                   "editBlur", "editEnter", "editEscape"} =>
       /\ seen' = IF boardData' # boardData THEN <<boardData'>> ELSE <<>>
       /\ op'.name = "toggleTask" => boardData' # boardData
       /\ (op'.name = "addTask" /\ op'.res = "added") =>
            LET l == op'.n
                tasks == boardData'.lists[l].tasks
                new == tasks[Len(tasks)]
            IN /\ boardData' = [boardData EXCEPT
                                  !.lists[l].tasks = Append(boardData.lists[l].tasks, new)]
               /\ new.text # <<>> /\ Trim(new.text) = new.text
               /\ ~new.done
       /\ (op'.name = "addTask" /\ op'.res = "blank") => boardData' = boardData
       /\ op'.name = "newList" =>
            LET new == boardData'.lists[Len(boardData'.lists)]
            IN /\ boardData'.lists = Append(boardData.lists, new)
               /\ new.title = NEW_LIST_TITLE
               /\ new.tasks = <<>>
       /\ (op'.name \in {"deleteTask", "confirmDeleteList"}) =>
            IF op'.res = "deleted"
            THEN /\ boardData' # boardData
                 /\ op'.name = "confirmDeleteList" =>
                      boardData'.lists = RemoveAt(boardData.lists, op'.n)
            ELSE boardData' = boardData]_vars

\* Enter in the add input that holds " b" added the second task of a list:
\* its text is "b" and onChange saw it.
C36_Witness ==
  /\ op.name = "addTask"
  /\ op.res = "added"
  /\ Len(boardData.lists[op.n].tasks) = 2
  /\ boardData.lists[op.n].tasks[2].text = <<"b">>
  /\ boardData.lists[op.n].tasks[1].done
  /\ seen = <<boardData>>

\* C37: the end of an inline edit changes the stored title or text and
\* calls onChange only if the trimmed value of the input is not empty and
\* differs from the stored value; Escape, and a blur or Enter with the value
\* the input was opened with, change nothing and call nothing, whatever the
\* stored value is.
C37_EditCommit ==
  [][op'.name \in {"editBlur", "editEnter", "editEscape"} =>
       LET stored == Stored(boardData, edit)
           kept == \/ op'.name = "editEscape"
                   \/ edit.value = stored
                   \/ Trim(edit.value) = <<>>
                   \/ Trim(edit.value) = stored
       IN IF kept
          THEN boardData' = boardData /\ seen' = <<>>
          ELSE /\ Stored(boardData', edit) = Trim(edit.value)
               /\ seen' = <<boardData'>>]_vars


\* C39: the document of an open tab does not change between two states in
\* which the tab is read-only, and the preview of a read-only tab renders
\* the content the tab has.
C39_ReadOnlyContentFixed ==
  /\ [][\A id \in Range(tabs) \cap Range(tabs') :
          (tab[id].readOnly /\ tab'[id].readOnly) => tab'[id].doc = tab[id].doc]_vars
  /\ [](\A id \in Range(tabs) :
          tab[id].readOnly => views[id].preview = <<getEditorContent(tab[id].doc)>>)


====
